---- MODULE Spec2Model ----
(***************************************************************************)
(* Model of scanner/util/common.cpp: the DatabaseMetadata catalog, the     *)
(* binary codecs of the catalog snapshot, dataset descriptor, item         *)
(* metadata and web timestamps, and the JSON codec of the job descriptor.  *)
(*                                                                         *)
(* Strings and byte blobs are sequences of byte values (0..255).  A stream *)
(* (WriteFile / RandomReadFile) is the sequence of bytes appended to it.   *)
(***************************************************************************)
EXTENDS Integers, Sequences, FiniteSets, TLC

VARIABLES
  next_dataset_id,  \* DatabaseMetadata::next_dataset_id
  next_job_id,      \* DatabaseMetadata::next_job_id
  dataset_names,    \* std::map<i32, std::string>
  dataset_job_ids,  \* std::map<i32, std::set<i32>>
  job_names,        \* std::map<i32, std::string>
  dataset_log,      \* history: the dataset ids add_dataset allocated, in call order
  job_log,          \* history: the job ids add_job allocated, in call order
  last,             \* the call that ran last: its name, arguments, outcome, and the catalog before it
  pc,               \* where the process is: "run", "saved", "loaded", "init", "written", "done", "aborted"
  ndebug,           \* whether the build defines NDEBUG (assert() compiled out)
  file,             \* the bytes of the stream
  pos,              \* the caller's read position (u64& pos)
  rec,              \* the record handed to a record serializer
  out,              \* the record a record deserializer returned
  frame             \* the locals of the call in progress, or of the caller of the codec

vars == <<next_dataset_id, next_job_id, dataset_names, dataset_job_ids, job_names,
          dataset_log, job_log, last, pc, ndebug, file, pos, rec, out, frame>>

catalog_vars == <<next_dataset_id, next_job_id, dataset_names, dataset_job_ids, job_names>>

-----------------------------------------------------------------------------
(* Bounds of the model.                                                    *)

\* add_dataset is called at most this many times (ids 0 .. MaxDatasets-1).
MaxDatasets == 2

\* add_job is called at most this many times (ids 0 .. MaxJobs-1).
MaxJobs == 2

-----------------------------------------------------------------------------
(* Strings.                                                                *)

\* "videos-2016"
videos_2016 == <<118, 105, 100, 101, 111, 115, 45, 50, 48, 49, 54>>

\* "detect-faces"
detect_faces == <<100, 101, 116, 101, 99, 116, 45, 102, 97, 99, 101, 115>>

DatasetNameInputs == {videos_2016, <<>>}

JobNameInputs == {detect_faces, <<>>}

-----------------------------------------------------------------------------
(* std::map and std::set primitives.                                       *)

EmptyMap == <<>>

\* m[k] = v
MapPut(m, k, v) == [x \in (DOMAIN m) \cup {k} |-> IF x = k THEN v ELSE m[x]]

\* m.erase(k)
MapErase(m, k) == [x \in (DOMAIN m) \ {k} |-> m[x]]

\* m with every key of ks erased
MapEraseAll(m, ks) == [x \in (DOMAIN m) \ ks |-> m[x]]

Min(S) == CHOOSE x \in S : \A y \in S : x <= y

\* The elements of a set of integers in increasing order: the iteration order
\* of std::map (by key) and std::set.
RECURSIVE Sorted(_)
Sorted(S) == IF S = {} THEN <<>> ELSE <<Min(S)>> \o Sorted(S \ {Min(S)})

-----------------------------------------------------------------------------
(* The catalog: DatabaseMetadata.                                          *)

Catalog ==
  [next_dataset_id |-> next_dataset_id,
   next_job_id     |-> next_job_id,
   dataset_names   |-> dataset_names,
   dataset_job_ids |-> dataset_job_ids,
   job_names       |-> job_names]

EmptyCatalog ==
  [next_dataset_id |-> 0,
   next_job_id     |-> 0,
   dataset_names   |-> EmptyMap,
   dataset_job_ids |-> EmptyMap,
   job_names       |-> EmptyMap]

\* No record: rec before a record is handed over, out before one is returned.
NoRecord == [kind |-> "none"]

\* No call in progress and no caller's locals.
NoFrame == [kind |-> "none"]

Call(op, id, name, threw) ==
  [op |-> op, id |-> id, name |-> name, threw |-> threw, pre |-> Catalog]

\* bool has_dataset(const std::string&)
has_dataset_name(dataset) == \E k \in DOMAIN dataset_names : dataset_names[k] = dataset

\* bool has_dataset(i32)
has_dataset(dataset_id) == Cardinality({k \in DOMAIN dataset_names : k = dataset_id}) > 0

\* bool has_job(const std::string&)
has_job_name(job) == \E k \in DOMAIN job_names : job = job_names[k]

\* bool has_job(i32)
has_job(job_id) == Cardinality({k \in DOMAIN job_names : k = job_id}) > 0

codec_unchanged == UNCHANGED <<ndebug, file, pos, rec, out, frame>>

add_dataset_no_increment(dataset) ==
  /\ pc = "run"
  /\ Len(dataset_log) < MaxDatasets
  /\ LET dataset_id == next_dataset_id IN
       /\ next_dataset_id' = next_dataset_id
       /\ dataset_names' = MapPut(dataset_names, dataset_id, dataset)
       /\ dataset_job_ids' = MapPut(dataset_job_ids, dataset_id, {})
       /\ dataset_log' = Append(dataset_log, dataset_id)
       /\ last' = Call("add_dataset", dataset_id, dataset, FALSE)
  /\ UNCHANGED <<next_job_id, job_names, job_log, pc>>
  /\ codec_unchanged

\* void DatabaseMetadata::add_dataset(const std::string&)
add_dataset(dataset) ==
  /\ pc = "run"
  /\ next_dataset_id < MaxDatasets
  /\ LET dataset_id == next_dataset_id IN
       /\ next_dataset_id' = next_dataset_id + 1
       /\ dataset_names' = MapPut(dataset_names, dataset_id, dataset)
       /\ dataset_job_ids' = MapPut(dataset_job_ids, dataset_id, {})
       /\ dataset_log' = Append(dataset_log, dataset_id)
       /\ last' = Call("add_dataset", dataset_id, dataset, FALSE)
  /\ UNCHANGED <<next_job_id, job_names, job_log, pc>>
  /\ codec_unchanged

remove_dataset_keeps_name(dataset_id) ==
  /\ pc = "run"
  /\ IF dataset_id \in DOMAIN dataset_job_ids
       THEN /\ job_names' = MapEraseAll(job_names, dataset_job_ids[dataset_id])
            /\ dataset_job_ids' = MapErase(dataset_job_ids, dataset_id)
            /\ dataset_names' = dataset_names
            /\ last' = Call("remove_dataset", dataset_id, <<>>, FALSE)
       ELSE /\ UNCHANGED <<job_names, dataset_job_ids, dataset_names>>
            /\ last' = Call("remove_dataset", dataset_id, <<>>, TRUE)
  /\ UNCHANGED <<next_dataset_id, next_job_id, dataset_log, job_log, pc>>
  /\ codec_unchanged

remove_dataset_keeps_jobs(dataset_id) ==
  /\ pc = "run"
  /\ IF dataset_id \in DOMAIN dataset_job_ids
       THEN /\ job_names' = job_names
            /\ dataset_job_ids' = MapErase(dataset_job_ids, dataset_id)
            /\ dataset_names' = MapErase(dataset_names, dataset_id)
            /\ last' = Call("remove_dataset", dataset_id, <<>>, FALSE)
       ELSE /\ UNCHANGED <<job_names, dataset_job_ids, dataset_names>>
            /\ last' = Call("remove_dataset", dataset_id, <<>>, TRUE)
  /\ UNCHANGED <<next_dataset_id, next_job_id, dataset_log, job_log, pc>>
  /\ codec_unchanged

remove_dataset_erases_all_job_names(dataset_id) ==
  /\ pc = "run"
  /\ IF dataset_id \in DOMAIN dataset_job_ids
       THEN /\ job_names' = EmptyMap
            /\ dataset_job_ids' = MapErase(dataset_job_ids, dataset_id)
            /\ dataset_names' = MapErase(dataset_names, dataset_id)
            /\ last' = Call("remove_dataset", dataset_id, <<>>, FALSE)
       ELSE /\ UNCHANGED <<job_names, dataset_job_ids, dataset_names>>
            /\ last' = Call("remove_dataset", dataset_id, <<>>, TRUE)
  /\ UNCHANGED <<next_dataset_id, next_job_id, dataset_log, job_log, pc>>
  /\ codec_unchanged

remove_dataset_erases_orphans(dataset_id) ==
  /\ pc = "run"
  /\ IF dataset_id \in DOMAIN dataset_job_ids
       THEN /\ job_names' =
                 [j \in {k \in DOMAIN job_names :
                           \E d \in (DOMAIN dataset_job_ids) \ {dataset_id} :
                             k \in dataset_job_ids[d]} |-> job_names[j]]
            /\ dataset_job_ids' = MapErase(dataset_job_ids, dataset_id)
            /\ dataset_names' = MapErase(dataset_names, dataset_id)
            /\ last' = Call("remove_dataset", dataset_id, <<>>, FALSE)
       ELSE /\ UNCHANGED <<job_names, dataset_job_ids, dataset_names>>
            /\ last' = Call("remove_dataset", dataset_id, <<>>, TRUE)
  /\ UNCHANGED <<next_dataset_id, next_job_id, dataset_log, job_log, pc>>
  /\ codec_unchanged

\* void DatabaseMetadata::remove_dataset(i32)
\* dataset_job_ids.at(dataset_id) throws std::out_of_range for an unknown id,
\* before anything is erased.
remove_dataset(dataset_id) ==
  /\ pc = "run"
  /\ IF dataset_id \in DOMAIN dataset_job_ids
       THEN /\ job_names' = MapEraseAll(job_names, dataset_job_ids[dataset_id])
            /\ dataset_job_ids' = MapErase(dataset_job_ids, dataset_id)
            /\ dataset_names' = MapErase(dataset_names, dataset_id)
            /\ last' = Call("remove_dataset", dataset_id, <<>>, FALSE)
       ELSE /\ UNCHANGED <<job_names, dataset_job_ids, dataset_names>>
            /\ last' = Call("remove_dataset", dataset_id, <<>>, TRUE)
  /\ UNCHANGED <<next_dataset_id, next_job_id, dataset_log, job_log, pc>>
  /\ codec_unchanged

add_job_no_name(dataset_id, job_name) ==
  /\ pc = "run"
  /\ next_job_id < MaxJobs
  /\ LET job_id == next_job_id IN
       /\ next_job_id' = next_job_id + 1
       /\ job_log' = Append(job_log, job_id)
       /\ IF dataset_id \in DOMAIN dataset_job_ids
            THEN /\ dataset_job_ids' =
                      [dataset_job_ids EXCEPT ![dataset_id] = @ \cup {job_id}]
                 /\ job_names' = job_names
                 /\ last' = Call("add_job", dataset_id, job_name, FALSE)
            ELSE /\ UNCHANGED <<dataset_job_ids, job_names>>
                 /\ last' = Call("add_job", dataset_id, job_name, TRUE)
  /\ UNCHANGED <<next_dataset_id, dataset_names, dataset_log, pc>>
  /\ codec_unchanged

add_job_no_increment(dataset_id, job_name) ==
  /\ pc = "run"
  /\ Len(job_log) < MaxJobs
  /\ LET job_id == next_job_id IN
       /\ next_job_id' = next_job_id
       /\ job_log' = Append(job_log, job_id)
       /\ IF dataset_id \in DOMAIN dataset_job_ids
            THEN /\ dataset_job_ids' =
                      [dataset_job_ids EXCEPT ![dataset_id] = @ \cup {job_id}]
                 /\ job_names' = MapPut(job_names, job_id, job_name)
                 /\ last' = Call("add_job", dataset_id, job_name, FALSE)
            ELSE /\ UNCHANGED <<dataset_job_ids, job_names>>
                 /\ last' = Call("add_job", dataset_id, job_name, TRUE)
  /\ UNCHANGED <<next_dataset_id, dataset_names, dataset_log, pc>>
  /\ codec_unchanged

\* void DatabaseMetadata::add_job(i32, const std::string&)
\* next_job_id++ runs first; dataset_job_ids.at(dataset_id) then throws
\* std::out_of_range for an unknown dataset, leaving the counter incremented.
add_job(dataset_id, job_name) ==
  /\ pc = "run"
  /\ next_job_id < MaxJobs
  /\ LET job_id == next_job_id IN
       /\ next_job_id' = next_job_id + 1
       /\ job_log' = Append(job_log, job_id)
       /\ IF dataset_id \in DOMAIN dataset_job_ids
            THEN /\ dataset_job_ids' =
                      [dataset_job_ids EXCEPT ![dataset_id] = @ \cup {job_id}]
                 /\ job_names' = MapPut(job_names, job_id, job_name)
                 /\ last' = Call("add_job", dataset_id, job_name, FALSE)
            ELSE /\ UNCHANGED <<dataset_job_ids, job_names>>
                 /\ last' = Call("add_job", dataset_id, job_name, TRUE)
  /\ UNCHANGED <<next_dataset_id, dataset_names, dataset_log, pc>>
  /\ codec_unchanged

remove_job_erases_name(job_id) ==
  /\ pc = "run"
  /\ dataset_job_ids' =
       [d \in DOMAIN dataset_job_ids |->
          IF Cardinality(dataset_job_ids[d] \cap {job_id}) > 0
            THEN dataset_job_ids[d] \ {job_id}
            ELSE dataset_job_ids[d]]
  /\ job_names' = MapErase(job_names, job_id)
  /\ last' = Call("remove_job", job_id, <<>>, FALSE)
  /\ UNCHANGED <<next_dataset_id, next_job_id, dataset_names,
                 dataset_log, job_log, pc>>
  /\ codec_unchanged

\* void DatabaseMetadata::remove_job(i32)
remove_job(job_id) ==
  /\ pc = "run"
  /\ dataset_job_ids' =
       [d \in DOMAIN dataset_job_ids |->
          IF Cardinality(dataset_job_ids[d] \cap {job_id}) > 0
            THEN dataset_job_ids[d] \ {job_id}
            ELSE dataset_job_ids[d]]
  /\ last' = Call("remove_job", job_id, <<>>, FALSE)
  /\ UNCHANGED <<next_dataset_id, next_job_id, dataset_names, job_names,
                 dataset_log, job_log, pc>>
  /\ codec_unchanged

-----------------------------------------------------------------------------
(* Fixed-width values on the stream.  The producing machine's layout:      *)
(* little-endian two's complement, i32 and enums 4 bytes, size_t and       *)
(* int64_t 8 bytes.  Values of the model stay within 32 bits, so bytes 5   *)
(* to 8 of an 8-byte value are its sign extension.                         *)

SizeofI32 == 4

SizeofSizeT == 8

SizeofI64 == 8

\* Byte k (from 1) of the two's complement representation of v.
ByteOf(v, k) ==
  IF k > 4
    THEN (IF v >= 0 THEN 0 ELSE 255)
    ELSE LET d == CASE k = 1 -> 1 [] k = 2 -> 256 [] k = 3 -> 65536 [] OTHER -> 16777216
         IN IF v >= 0 THEN (v \div d) % 256 ELSE 255 - ((((-v) - 1) \div d) % 256)

\* reinterpret_cast<const u8*>(&v), n bytes
ToBytes(v, n) == [k \in 1..n |-> ByteOf(v, k)]

\* The value whose representation is the byte sequence b (4 or 8 bytes).
FromBytes(b) ==
  IF b[4] >= 128
    THEN -((255 - b[1]) + 256 * (255 - b[2]) + 65536 * (255 - b[3])
           + 16777216 * (255 - b[4])) - 1
    ELSE b[1] + 256 * b[2] + 65536 * b[3] + 16777216 * b[4]

\* Elements p+1 .. p+n of the stream f (the bytes at offsets p .. p+n-1).
Slice(f, p, n) == [k \in 1..n |-> f[p + k]]

\* write<T>(file, value) for a fixed-width T: the bytes it appends.
write_i32(v) == ToBytes(v, SizeofI32)

write_size_t(v) == ToBytes(v, SizeofSizeT)

write_i64(v) == ToBytes(v, SizeofI64)

\* write(file, const std::string&): a length field, then the raw bytes.
write_string(s) == write_size_t(Len(s)) \o s

\* read<T>(file, pos) for a fixed-width T of n bytes: the value and the
\* position after it; not ok when the stream holds fewer than n bytes at pos.
read_fixed(f, p, n) ==
  IF p + n <= Len(f)
    THEN [ok |-> TRUE, val |-> FromBytes(Slice(f, p, n)), pos |-> p + n]
    ELSE [ok |-> FALSE, val |-> 0, pos |-> p]

read_i32(f, p) == read_fixed(f, p, SizeofI32)

read_size_t(f, p) == read_fixed(f, p, SizeofSizeT)

\* read<std::string>(file, pos)
read_string(f, p) ==
  LET n == read_size_t(f, p) IN
    IF n.ok /\ n.val >= 0 /\ n.pos + n.val <= Len(f)
      THEN [ok |-> TRUE, val |-> Slice(f, n.pos, n.val), pos |-> n.pos + n.val]
      ELSE [ok |-> FALSE, val |-> <<>>, pos |-> p]

\* Concatenation of a sequence of byte sequences.
RECURSIVE Flatten(_)
Flatten(ss) == IF ss = <<>> THEN <<>> ELSE Head(ss) \o Flatten(Tail(ss))

-----------------------------------------------------------------------------
(* The catalog snapshot.                                                   *)

serialize_database_metadata_job_count(metadata) ==
  LET names_entry(k) == write_i32(k) \o write_string(metadata.dataset_names[k])
      job_id_bytes(j) == write_i32(j)
      jobs_entry(k) == write_i32(k)
                       \o write_size_t(Cardinality(metadata.dataset_job_ids[k]))
                       \o (LET js == Sorted(metadata.dataset_job_ids[k])
                           IN Flatten([i \in 1..Len(js) |-> job_id_bytes(js[i])]))
      job_entry(k) == write_i32(k) \o write_string(metadata.job_names[k])
      num_datasets == Cardinality(DOMAIN metadata.dataset_names)
  IN write_i32(metadata.next_dataset_id)
     \o write_i32(metadata.next_job_id)
     \o write_size_t(num_datasets)
     \o (LET ks == Sorted(DOMAIN metadata.dataset_names)
         IN Flatten([i \in 1..Len(ks) |-> names_entry(ks[i])]))
     \o (LET ks == Sorted(DOMAIN metadata.dataset_job_ids)
         IN Flatten([i \in 1..Len(ks) |-> jobs_entry(ks[i])]))
     \o write_size_t(num_datasets)
     \o (LET ks == Sorted(DOMAIN metadata.job_names)
         IN Flatten([i \in 1..Len(ks) |-> job_entry(ks[i])]))

\* void serialize_database_metadata(WriteFile*, const DatabaseMetadata&):
\* the bytes it appends, after its assertion.
serialize_database_metadata(metadata) ==
  LET names_entry(k) == write_i32(k) \o write_string(metadata.dataset_names[k])
      job_id_bytes(j) == write_i32(j)
      jobs_entry(k) == write_i32(k)
                       \o write_size_t(Cardinality(metadata.dataset_job_ids[k]))
                       \o (LET js == Sorted(metadata.dataset_job_ids[k])
                           IN Flatten([i \in 1..Len(js) |-> job_id_bytes(js[i])]))
      job_entry(k) == write_i32(k) \o write_string(metadata.job_names[k])
      num_datasets == Cardinality(DOMAIN metadata.dataset_names)
      num_jobs == Cardinality(DOMAIN metadata.job_names)
  IN write_i32(metadata.next_dataset_id)
     \o write_i32(metadata.next_job_id)
     \o write_size_t(num_datasets)
     \o (LET ks == Sorted(DOMAIN metadata.dataset_names)
         IN Flatten([i \in 1..Len(ks) |-> names_entry(ks[i])]))
     \o (LET ks == Sorted(DOMAIN metadata.dataset_job_ids)
         IN Flatten([i \in 1..Len(ks) |-> jobs_entry(ks[i])]))
     \o write_size_t(num_jobs)
     \o (LET ks == Sorted(DOMAIN metadata.job_names)
         IN Flatten([i \in 1..Len(ks) |-> job_entry(ks[i])]))

\* for (i < n) { id = read<i32>; names[id] = read<std::string>; }
RECURSIVE read_name_entries(_, _, _, _)
read_name_entries(f, p, n, names) ==
  IF n <= 0 THEN [ok |-> TRUE, val |-> names, pos |-> p]
  ELSE LET id == read_i32(f, p)
           name == read_string(f, id.pos)
       IN IF id.ok /\ name.ok
            THEN read_name_entries(f, name.pos, n - 1, MapPut(names, id.val, name.val))
            ELSE [ok |-> FALSE, val |-> names, pos |-> p]

\* for (j < n) { set.insert(read<i32>) }
RECURSIVE read_job_ids(_, _, _, _)
read_job_ids(f, p, n, ids) ==
  IF n <= 0 THEN [ok |-> TRUE, val |-> ids, pos |-> p]
  ELSE LET id == read_i32(f, p)
       IN IF id.ok
            THEN read_job_ids(f, id.pos, n - 1, ids \cup {id.val})
            ELSE [ok |-> FALSE, val |-> ids, pos |-> p]

\* for (i < n) { id = read<i32>; count = read<size_t>; sets[id] = {}; ... }
RECURSIVE read_job_set_entries(_, _, _, _)
read_job_set_entries(f, p, n, sets) ==
  IF n <= 0 THEN [ok |-> TRUE, val |-> sets, pos |-> p]
  ELSE LET id == read_i32(f, p)
           num_job_ids == read_size_t(f, id.pos)
           ids == read_job_ids(f, num_job_ids.pos, num_job_ids.val, {})
       IN IF id.ok /\ num_job_ids.ok /\ ids.ok
            THEN read_job_set_entries(f, ids.pos, n - 1, MapPut(sets, id.val, ids.val))
            ELSE [ok |-> FALSE, val |-> sets, pos |-> p]

\* DatabaseMetadata deserialize_database_metadata(RandomReadFile*, u64& pos):
\* the catalog and the position after it; not ok when a read fails.
deserialize_database_metadata(f, p) ==
  LET nd == read_i32(f, p)
      nj == read_i32(f, nd.pos)
      num_datasets == read_size_t(f, nj.pos)
      names == read_name_entries(f, num_datasets.pos, num_datasets.val, EmptyMap)
      sets == read_job_set_entries(f, names.pos, num_datasets.val, EmptyMap)
      num_jobs == read_size_t(f, sets.pos)
      jobs == read_name_entries(f, num_jobs.pos, num_jobs.val, EmptyMap)
  IN IF nd.ok /\ nj.ok /\ num_datasets.ok /\ names.ok /\ sets.ok /\ num_jobs.ok /\ jobs.ok
       THEN [ok |-> TRUE, pos |-> jobs.pos,
             val |-> [next_dataset_id |-> nd.val,
                      next_job_id     |-> nj.val,
                      dataset_names   |-> names.val,
                      dataset_job_ids |-> sets.val,
                      job_names       |-> jobs.val]]
       ELSE [ok |-> FALSE, pos |-> p, val |-> EmptyCatalog]

\* A caller writes the catalog to a fresh stream.  The assertion at the top
\* of serialize_database_metadata aborts unless NDEBUG is defined.
SerializeCatalog ==
  /\ pc = "run"
  /\ last' = Call("serialize_database_metadata", -1, <<>>, FALSE)
  /\ IF Cardinality(DOMAIN dataset_names) = Cardinality(DOMAIN dataset_job_ids) \/ ndebug
       THEN /\ file' = serialize_database_metadata(Catalog)
            /\ pc' = "saved"
       ELSE /\ file' = <<>>
            /\ pc' = "aborted"
  /\ pos' = 0
  /\ UNCHANGED <<catalog_vars, dataset_log, job_log, frame, ndebug, rec, out>>

\* A caller reloads the stream into a fresh catalog, from position 0.
DeserializeCatalog ==
  /\ pc = "saved"
  /\ last' = Call("deserialize_database_metadata", -1, <<>>, FALSE)
  /\ LET r == deserialize_database_metadata(file, pos) IN
       IF r.ok
         THEN /\ out' = r.val
              /\ pos' = r.pos
              /\ pc' = "loaded"
         ELSE /\ out' = out
              /\ pos' = pos
              /\ pc' = "aborted"
  /\ UNCHANGED <<catalog_vars, dataset_log, job_log, frame, ndebug, file, rec>>

-----------------------------------------------------------------------------
(* The catalog's life: calls on one DatabaseMetadata, from an empty one.   *)

Init ==
  /\ next_dataset_id = 0
  /\ next_job_id = 0
  /\ dataset_names = EmptyMap
  /\ dataset_job_ids = EmptyMap
  /\ job_names = EmptyMap
  /\ dataset_log = <<>>
  /\ job_log = <<>>
  /\ last = [op |-> "none", id |-> -1, name |-> <<>>, threw |-> FALSE, pre |-> EmptyCatalog]
  /\ pc = "run"
  /\ ndebug \in BOOLEAN
  /\ file = <<>>
  /\ pos = 0
  /\ rec = NoRecord
  /\ out = NoRecord
  /\ frame = NoFrame

Next ==
  \/ \E dataset \in DatasetNameInputs : add_dataset(dataset)
  \/ \E dataset_id \in 0..MaxDatasets : remove_dataset(dataset_id)
  \/ \E dataset_id \in 0..MaxDatasets, job_name \in JobNameInputs :
       add_job(dataset_id, job_name)
  \/ \E job_id \in 0..MaxJobs : remove_job(job_id)
  \/ SerializeCatalog
  \/ DeserializeCatalog

Spec == Init /\ [][Next]_vars

-----------------------------------------------------------------------------
(* remove_dataset at the grain of its map updates, with a reader thread.   *)
(* The writer runs one catalog call at a time; the other calls are taken   *)
(* whole.  frame holds the locals of the remove_dataset in progress.       *)

\* dataset_job_ids.at(dataset_id), and the start of the loop over its job ids
remove_dataset_begin(dataset_id) ==
  /\ pc = "run"
  /\ IF dataset_id \in DOMAIN dataset_job_ids
       THEN /\ frame' = [kind |-> "remove_dataset",
                         dataset_id |-> dataset_id,
                         job_ids |-> Sorted(dataset_job_ids[dataset_id])]
            /\ pc' = "erase_job_names"
            /\ last' = Call("remove_dataset", dataset_id, <<>>, FALSE)
       ELSE /\ UNCHANGED <<frame, pc>>
            /\ last' = Call("remove_dataset", dataset_id, <<>>, TRUE)
  /\ UNCHANGED <<catalog_vars, dataset_log, job_log, ndebug, file, pos, rec, out>>

\* job_names.erase(job_id), one turn of the loop
remove_dataset_erase_job_name ==
  /\ pc = "erase_job_names"
  /\ frame.job_ids # <<>>
  /\ job_names' = MapErase(job_names, Head(frame.job_ids))
  /\ frame' = [frame EXCEPT !.job_ids = Tail(@)]
  /\ UNCHANGED <<next_dataset_id, next_job_id, dataset_names, dataset_job_ids,
                 dataset_log, job_log, last, pc, ndebug, file, pos, rec, out>>

\* dataset_job_ids.erase(dataset_id), after the loop
remove_dataset_erase_job_set ==
  /\ pc = "erase_job_names"
  /\ frame.job_ids = <<>>
  /\ dataset_job_ids' = MapErase(dataset_job_ids, frame.dataset_id)
  /\ pc' = "erase_name"
  /\ UNCHANGED <<next_dataset_id, next_job_id, dataset_names, job_names,
                 dataset_log, job_log, last, ndebug, file, pos, rec, out, frame>>

remove_dataset_erase_name_skipped ==
  /\ pc = "erase_name"
  /\ dataset_names' = dataset_names
  /\ pc' = "run"
  /\ frame' = NoFrame
  /\ UNCHANGED <<next_dataset_id, next_job_id, dataset_job_ids, job_names,
                 dataset_log, job_log, last, ndebug, file, pos, rec, out>>

\* dataset_names.erase(dataset_id), and the return
remove_dataset_erase_name ==
  /\ pc = "erase_name"
  /\ dataset_names' = MapErase(dataset_names, frame.dataset_id)
  /\ pc' = "run"
  /\ frame' = NoFrame
  /\ UNCHANGED <<next_dataset_id, next_job_id, dataset_job_ids, job_names,
                 dataset_log, job_log, last, ndebug, file, pos, rec, out>>

\* A reader thread looks at one dataset, at any moment of the writer:
\* has_dataset(dataset_id), whether it has a job set, and which jobs of that
\* set has_job() does not know.  The model follows the reader no further.
observe(dataset_id) ==
  /\ pc \in {"run", "erase_job_names", "erase_name"}
  /\ out' = [kind |-> "observation",
             dataset_id |-> dataset_id,
             during |-> pc,
             has_dataset |-> has_dataset(dataset_id),
             has_job_set |-> dataset_id \in DOMAIN dataset_job_ids,
             unnamed_jobs |-> IF dataset_id \in DOMAIN dataset_job_ids
                                THEN {j \in dataset_job_ids[dataset_id] : ~has_job(j)}
                                ELSE {}]
  /\ pc' = "observed"
  /\ UNCHANGED <<catalog_vars, dataset_log, job_log, last, ndebug, file, pos, rec, frame>>

NextSteps ==
  \/ \E dataset \in DatasetNameInputs : add_dataset(dataset)
  \/ \E dataset_id \in 0..MaxDatasets, job_name \in JobNameInputs :
       add_job(dataset_id, job_name)
  \/ \E job_id \in 0..MaxJobs : remove_job(job_id)
  \/ \E dataset_id \in 0..MaxDatasets : remove_dataset_begin(dataset_id)
  \/ remove_dataset_erase_job_name
  \/ remove_dataset_erase_job_set
  \/ remove_dataset_erase_name
  \/ \E dataset_id \in 0..(MaxDatasets - 1) : observe(dataset_id)

SpecSteps == Init /\ [][NextSteps]_vars

-----------------------------------------------------------------------------
(* The storage backend and the record codecs' explicit reads.              *)

\* At most this many keyframes (item metadata) or frames (web timestamps).
MaxRun == 1

\* At most this many videos in a dataset descriptor.
MaxVideos == 1

\* All sequences over V of length at most n.
SeqsUpTo(V, n) == UNION {[1..k -> V] : k \in 0..n}

\* What an out-of-bounds read of a vector's storage can yield: a crash, or
\* whatever lies behind the buffer (fill for 64-bit elements, name for a
\* std::string).
UBOutcomes ==
  [crash : BOOLEAN,
   fill  : [1..(MaxRun + 1) -> {0, 99}],
   name  : {<<>>, <<63>>}]

\* The explicit positional reads of one record deserializer, in order; a set
\* of these says at which of them the backend answers EndOfFile when the
\* read ends exactly at the end of the stream.
ReadIndices == 1..6

\* StoreResult RandomReadFile::read(pos, size, data, size_read): the bytes
\* available at pos, at most size of them.  A read cut short by the end of
\* the stream is EndOfFile; a read that ends exactly at the end of the stream
\* is Success or EndOfFile, as the backend chooses (at_end).
file_read(f, p, size, at_end) ==
  LET avail == IF p >= Len(f) THEN 0 ELSE Len(f) - p
      n == IF size <= avail THEN size ELSE avail
  IN [result    |-> IF n < size THEN "EndOfFile"
                    ELSE IF at_end /\ p + size = Len(f) THEN "EndOfFile"
                    ELSE "Success",
      size_read |-> n,
      data      |-> Slice(f, p, n)]

\* exit_on_error(result): the process goes on only after Success.
exit_on_error(result) == result = "Success"

\* assert(cond): aborts unless the build defines NDEBUG.
assert(cond) == cond \/ ndebug

\* EXP_BACKOFF(read); exit_on_error(result); assert(size_read == size)
read_checked(r, size) == exit_on_error(r.result) /\ assert(r.size_read = size)

\* EXP_BACKOFF(read); assert(result == Success || result == EndOfFile);
\* assert(size_read == size)
read_lenient(r, size) ==
  assert(r.result \in {"Success", "EndOfFile"}) /\ assert(r.size_read = size)

\* The buffer of n bytes, zero-filled by resize(), after a read put data at
\* its start.
Filled(data, n) == [k \in 1..n |-> IF k <= Len(data) THEN data[k] ELSE 0]

\* The count 64-bit elements of a vector whose storage holds the bytes b.
I64Elements(b, count) == [i \in 1..count |-> FromBytes(Slice(b, (i - 1) * SizeofI64, SizeofI64))]

\* append(sizeof(int64_t) * n, v.data()): the first n elements of v; those
\* past v's end are read out of bounds.
I64Run(v, n, fill) ==
  Flatten([i \in 1..n |-> write_i64(IF i <= Len(v) THEN v[i] ELSE fill[i])])

Aborted == [status |-> "abort", pos |-> 0, val |-> NoRecord]

-----------------------------------------------------------------------------
(* DatasetItemMetadata.                                                    *)

\* void serialize_dataset_item_metadata(WriteFile*, const DatasetItemMetadata&):
\* the bytes appended, and whether the call returned.  The assertions on the
\* keyframe sequences run after the scalars and the blob are appended.
serialize_dataset_item_metadata(metadata, ub) ==
  LET head == write_i32(metadata.frames)
              \o write_i32(metadata.width)
              \o write_i32(metadata.height)
              \o write_i32(metadata.codec_type)
              \o write_i32(metadata.chroma_format)
              \o write_size_t(Len(metadata.metadata_packets))
              \o metadata.metadata_packets
      num_keyframes == Len(metadata.keyframe_positions)
      short == \/ Len(metadata.keyframe_timestamps) < num_keyframes
               \/ Len(metadata.keyframe_byte_offsets) < num_keyframes
  IN IF ~assert(/\ Len(metadata.keyframe_positions) = Len(metadata.keyframe_timestamps)
                /\ Len(metadata.keyframe_positions) = Len(metadata.keyframe_byte_offsets))
       THEN [status |-> "abort", bytes |-> head]
     ELSE IF short /\ ub.crash
       THEN [status |-> "abort", bytes |-> head \o write_size_t(num_keyframes)]
     ELSE [status |-> "ok",
           bytes |-> head
                     \o write_size_t(num_keyframes)
                     \o I64Run(metadata.keyframe_positions, num_keyframes, ub.fill)
                     \o I64Run(metadata.keyframe_timestamps, num_keyframes, ub.fill)
                     \o I64Run(metadata.keyframe_byte_offsets, num_keyframes, ub.fill)]

\* DatasetItemMetadata deserialize_dataset_item_metadata(RandomReadFile*, uint64_t& pos)
\* eofs: the explicit reads (1: blob size, 2: blob, 3: keyframe count,
\* 4: positions, 5: timestamps, 6: byte offsets) the backend ends with
\* EndOfFile when they reach the end of the stream.
deserialize_dataset_item_metadata(f, p, eofs) ==
  LET frames == read_i32(f, p)
      width == read_i32(f, frames.pos)
      height == read_i32(f, width.pos)
      codec_type == read_i32(f, height.pos)
      chroma_format == read_i32(f, codec_type.pos)
      r1 == file_read(f, chroma_format.pos, SizeofSizeT, 1 \in eofs)
      metadata_size == FromBytes(Filled(r1.data, SizeofSizeT))
      p1 == chroma_format.pos + r1.size_read
      r2 == file_read(f, p1, metadata_size, 2 \in eofs)
      p2 == p1 + r2.size_read
      r3 == file_read(f, p2, SizeofSizeT, 3 \in eofs)
      num_keyframes == FromBytes(Filled(r3.data, SizeofSizeT))
      run == SizeofI64 * num_keyframes
      p3 == p2 + r3.size_read
      r4 == file_read(f, p3, run, 4 \in eofs)
      p4 == p3 + r4.size_read
      r5 == file_read(f, p4, run, 5 \in eofs)
      p5 == p4 + r5.size_read
      r6 == file_read(f, p5, run, 6 \in eofs)
      p6 == p5 + r6.size_read
  IN IF ~(frames.ok /\ width.ok /\ height.ok /\ codec_type.ok /\ chroma_format.ok)
       THEN Aborted
     ELSE IF ~read_checked(r1, SizeofSizeT) THEN Aborted
     ELSE IF ~read_checked(r2, metadata_size) THEN Aborted
     ELSE IF ~read_checked(r3, SizeofSizeT) THEN Aborted
     ELSE IF ~read_checked(r4, run) THEN Aborted
     ELSE IF ~read_lenient(r5, run) THEN Aborted
     ELSE IF ~read_lenient(r6, run) THEN Aborted
     ELSE [status |-> "ok", pos |-> p6,
           val |-> [kind |-> "item",
                    frames |-> frames.val,
                    width |-> width.val,
                    height |-> height.val,
                    codec_type |-> codec_type.val,
                    chroma_format |-> chroma_format.val,
                    metadata_packets |-> Filled(r2.data, metadata_size),
                    keyframe_positions |-> I64Elements(Filled(r4.data, run), num_keyframes),
                    keyframe_timestamps |-> I64Elements(Filled(r5.data, run), num_keyframes),
                    keyframe_byte_offsets |-> I64Elements(Filled(r6.data, run), num_keyframes)]]

ItemMetadataInputs ==
  {[kind |-> "item",
    frames |-> s[1], width |-> s[2], height |-> s[3],
    codec_type |-> s[4], chroma_format |-> s[5],
    metadata_packets |-> b,
    keyframe_positions |-> kp,
    keyframe_timestamps |-> kt,
    keyframe_byte_offsets |-> kb] :
     s \in {<<0, 0, 0, 0, 0>>, <<300, 640, 480, 1, 2>>},
     b \in {<<>>, <<0, 255>>},
     kp \in SeqsUpTo({0, 70000}, MaxRun),
     kt \in SeqsUpTo({-1, 90000}, MaxRun),
     kb \in SeqsUpTo({48, 1000000}, MaxRun)}

SerializeItemMetadata ==
  /\ pc = "init"
  /\ rec.kind = "item"
  /\ \E ub \in UBOutcomes :
       LET w == serialize_dataset_item_metadata(rec, ub) IN
         /\ file' = w.bytes
         /\ pc' = IF w.status = "ok" THEN "written" ELSE "aborted"
  /\ last' = Call("serialize_dataset_item_metadata", -1, <<>>, FALSE)
  /\ UNCHANGED <<catalog_vars, dataset_log, job_log, frame, ndebug, pos, rec, out>>

DeserializeItemMetadata ==
  /\ pc = "written"
  /\ rec.kind = "item"
  /\ \E eofs \in SUBSET ReadIndices :
       LET r == deserialize_dataset_item_metadata(file, pos, eofs) IN
         /\ out' = r.val
         /\ pos' = r.pos
         /\ pc' = IF r.status = "ok" THEN "done" ELSE "aborted"
  /\ last' = Call("deserialize_dataset_item_metadata", -1, <<>>, FALSE)
  /\ UNCHANGED <<catalog_vars, dataset_log, job_log, frame, ndebug, file, rec>>

-----------------------------------------------------------------------------
(* DatasetItemWebTimestamps.                                               *)

\* void serialize_dataset_item_web_timestamps(WriteFile*, const DatasetItemWebTimestamps&)
\* No comparison of the two sequences' lengths: num_frames is pts_timestamps.size().
serialize_dataset_item_web_timestamps(metadata, ub) ==
  LET num_frames == Len(metadata.pts_timestamps)
      head == write_i32(metadata.time_base_numerator)
              \o write_i32(metadata.time_base_denominator)
              \o write_size_t(num_frames)
              \o I64Run(metadata.pts_timestamps, num_frames, ub.fill)
  IN IF Len(metadata.dts_timestamps) < num_frames /\ ub.crash
       THEN [status |-> "abort", bytes |-> head]
       ELSE [status |-> "ok",
             bytes |-> head \o I64Run(metadata.dts_timestamps, num_frames, ub.fill)]

\* DatasetItemWebTimestamps deserialize_dataset_item_web_timestamps(RandomReadFile*, uint64_t& pos)
\* eofs: as for item metadata (1: numerator, 2: denominator, 3: frame count,
\* 4: pts, 5: dts).
deserialize_dataset_item_web_timestamps(f, p, eofs) ==
  LET r1 == file_read(f, p, SizeofI32, 1 \in eofs)
      p1 == p + r1.size_read
      r2 == file_read(f, p1, SizeofI32, 2 \in eofs)
      p2 == p1 + r2.size_read
      r3 == file_read(f, p2, SizeofSizeT, 3 \in eofs)
      num_frames == FromBytes(Filled(r3.data, SizeofSizeT))
      run == SizeofI64 * num_frames
      p3 == p2 + r3.size_read
      r4 == file_read(f, p3, run, 4 \in eofs)
      p4 == p3 + r4.size_read
      r5 == file_read(f, p4, run, 5 \in eofs)
      p5 == p4 + r5.size_read
  IN IF ~read_checked(r1, SizeofI32) THEN Aborted
     ELSE IF ~read_checked(r2, SizeofI32) THEN Aborted
     ELSE IF ~read_checked(r3, SizeofSizeT) THEN Aborted
     ELSE IF ~read_checked(r4, run) THEN Aborted
     ELSE IF ~read_lenient(r5, run) THEN Aborted
     ELSE [status |-> "ok", pos |-> p5,
           val |-> [kind |-> "web",
                    time_base_numerator |-> FromBytes(Filled(r1.data, SizeofI32)),
                    time_base_denominator |-> FromBytes(Filled(r2.data, SizeofI32)),
                    pts_timestamps |-> I64Elements(Filled(r4.data, run), num_frames),
                    dts_timestamps |-> I64Elements(Filled(r5.data, run), num_frames)]]

WebTimestampsInputs ==
  {[kind |-> "web",
    time_base_numerator |-> tb[1],
    time_base_denominator |-> tb[2],
    pts_timestamps |-> pts,
    dts_timestamps |-> dts] :
     tb \in {<<1, 30>>, <<1001, 30000>>},
     pts \in SeqsUpTo({0, 3003}, MaxRun),
     dts \in SeqsUpTo({-1, 2002}, MaxRun)}

SerializeWebTimestamps ==
  /\ pc = "init"
  /\ rec.kind = "web"
  /\ \E ub \in UBOutcomes :
       LET w == serialize_dataset_item_web_timestamps(rec, ub) IN
         /\ file' = w.bytes
         /\ pc' = IF w.status = "ok" THEN "written" ELSE "aborted"
  /\ last' = Call("serialize_dataset_item_web_timestamps", -1, <<>>, FALSE)
  /\ UNCHANGED <<catalog_vars, dataset_log, job_log, frame, ndebug, pos, rec, out>>

DeserializeWebTimestamps ==
  /\ pc = "written"
  /\ rec.kind = "web"
  /\ \E eofs \in SUBSET ReadIndices :
       LET r == deserialize_dataset_item_web_timestamps(file, pos, eofs) IN
         /\ out' = r.val
         /\ pos' = r.pos
         /\ pc' = IF r.status = "ok" THEN "done" ELSE "aborted"
  /\ last' = Call("deserialize_dataset_item_web_timestamps", -1, <<>>, FALSE)
  /\ UNCHANGED <<catalog_vars, dataset_log, job_log, frame, ndebug, file, rec>>

-----------------------------------------------------------------------------
(* DatasetDescriptor.                                                      *)

\* void serialize_dataset_descriptor(WriteFile*, const DatasetDescriptor&)
\* No comparison of the two sequences' lengths: num_videos is
\* original_video_paths.size(), and item_names[i] past item_names' end is
\* read out of bounds.
serialize_dataset_descriptor(descriptor, ub) ==
  LET num_videos == Len(descriptor.original_video_paths)
      item_name(i) == IF i <= Len(descriptor.item_names)
                        THEN descriptor.item_names[i] ELSE ub.name
      head == write_i64(descriptor.total_frames)
              \o write_i32(descriptor.min_frames)
              \o write_i32(descriptor.average_frames)
              \o write_i32(descriptor.max_frames)
              \o write_i32(descriptor.min_width)
              \o write_i32(descriptor.average_width)
              \o write_i32(descriptor.max_width)
              \o write_i32(descriptor.min_height)
              \o write_i32(descriptor.average_height)
              \o write_i32(descriptor.max_height)
              \o write_size_t(num_videos)
  IN IF Len(descriptor.item_names) < num_videos /\ ub.crash
       THEN [status |-> "abort", bytes |-> head]
       ELSE [status |-> "ok",
             bytes |-> head
                       \o Flatten([i \in 1..num_videos |->
                            write_string(descriptor.original_video_paths[i])
                            \o write_string(item_name(i))])]

\* for (i < num_videos) { paths.push_back(read<std::string>); names.push_back(read<std::string>); }
RECURSIVE read_video_entries(_, _, _, _, _)
read_video_entries(f, p, n, paths, names) ==
  IF n <= 0 THEN [ok |-> TRUE, paths |-> paths, names |-> names, pos |-> p]
  ELSE LET path == read_string(f, p)
           name == read_string(f, path.pos)
       IN IF path.ok /\ name.ok
            THEN read_video_entries(f, name.pos, n - 1,
                                    Append(paths, path.val), Append(names, name.val))
            ELSE [ok |-> FALSE, paths |-> paths, names |-> names, pos |-> p]

\* DatasetDescriptor deserialize_dataset_descriptor(RandomReadFile*, uint64_t& pos)
deserialize_dataset_descriptor(f, p) ==
  LET total_frames == read_fixed(f, p, SizeofI64)
      min_frames == read_i32(f, total_frames.pos)
      average_frames == read_i32(f, min_frames.pos)
      max_frames == read_i32(f, average_frames.pos)
      min_width == read_i32(f, max_frames.pos)
      average_width == read_i32(f, min_width.pos)
      max_width == read_i32(f, average_width.pos)
      min_height == read_i32(f, max_width.pos)
      average_height == read_i32(f, min_height.pos)
      max_height == read_i32(f, average_height.pos)
      num_videos == read_size_t(f, max_height.pos)
      videos == read_video_entries(f, num_videos.pos, num_videos.val, <<>>, <<>>)
  IN IF /\ total_frames.ok /\ min_frames.ok /\ average_frames.ok /\ max_frames.ok
        /\ min_width.ok /\ average_width.ok /\ max_width.ok
        /\ min_height.ok /\ average_height.ok /\ max_height.ok
        /\ num_videos.ok /\ videos.ok
       THEN [status |-> "ok", pos |-> videos.pos,
             val |-> [kind |-> "descriptor",
                      total_frames |-> total_frames.val,
                      min_frames |-> min_frames.val,
                      average_frames |-> average_frames.val,
                      max_frames |-> max_frames.val,
                      min_width |-> min_width.val,
                      average_width |-> average_width.val,
                      max_width |-> max_width.val,
                      min_height |-> min_height.val,
                      average_height |-> average_height.val,
                      max_height |-> max_height.val,
                      original_video_paths |-> videos.paths,
                      item_names |-> videos.names]]
       ELSE Aborted

\* "a.mp4"
a_mp4 == <<97, 46, 109, 112, 52>>

DatasetDescriptorInputs ==
  {[kind |-> "descriptor",
    total_frames |-> s[1],
    min_frames |-> s[2], average_frames |-> s[3], max_frames |-> s[4],
    min_width |-> s[5], average_width |-> s[6], max_width |-> s[7],
    min_height |-> s[8], average_height |-> s[9], max_height |-> s[10],
    original_video_paths |-> paths,
    item_names |-> names] :
     s \in {<<0, 0, 0, 0, 0, 0, 0, 0, 0, 0>>,
            <<100000, 10, 500, 1000, 320, 640, 1920, 240, 480, 1080>>},
     paths \in SeqsUpTo({a_mp4, <<>>}, MaxVideos),
     names \in SeqsUpTo({<<48>>, <<>>}, MaxVideos)}

SerializeDatasetDescriptor ==
  /\ pc = "init"
  /\ rec.kind = "descriptor"
  /\ \E ub \in UBOutcomes :
       LET w == serialize_dataset_descriptor(rec, ub) IN
         /\ file' = w.bytes
         /\ pc' = IF w.status = "ok" THEN "written" ELSE "aborted"
  /\ last' = Call("serialize_dataset_descriptor", -1, <<>>, FALSE)
  /\ UNCHANGED <<catalog_vars, dataset_log, job_log, frame, ndebug, pos, rec, out>>

DeserializeDatasetDescriptor ==
  /\ pc = "written"
  /\ rec.kind = "descriptor"
  /\ LET r == deserialize_dataset_descriptor(file, pos) IN
       /\ out' = r.val
       /\ pos' = r.pos
       /\ pc' = IF r.status = "ok" THEN "done" ELSE "aborted"
  /\ last' = Call("deserialize_dataset_descriptor", -1, <<>>, FALSE)
  /\ UNCHANGED <<catalog_vars, dataset_log, job_log, frame, ndebug, file, rec>>

-----------------------------------------------------------------------------
(* Json::Value (scanner/util/jsoncpp.h), as far as the job descriptor uses *)
(* it.  An object keeps its members ordered by key.                        *)

\* At most this many intervals per video of a job descriptor.
MaxIntervals == 2

JNull == [t |-> "null"]

JInt(n) == [t |-> "int", n |-> n]

JString(str) == [t |-> "string", s |-> str]

\* Whether string a comes before string b (std::string operator<).
StrLess(a, b) ==
  \E i \in 1..(Len(b)) :
    /\ \A k \in 1..(i - 1) : k <= Len(a) /\ a[k] = b[k]
    /\ (i > Len(a) \/ a[i] < b[i])

\* The strings of a set in increasing order: the iteration order of a
\* std::map keyed by std::string.
RECURSIVE SortedStrings(_)
SortedStrings(S) ==
  IF S = {} THEN <<>>
  ELSE LET least == CHOOSE x \in S : \A y \in S \ {x} : StrLess(x, y)
       IN <<least>> \o SortedStrings(S \ {least})

\* value[key] = member, on a null value or an object
JsonSet(value, key, member) ==
  LET old == IF value.t = "object" THEN value ELSE [t |-> "object", k |-> <<>>, v |-> <<>>]
      at(x) == CHOOSE i \in 1..Len(old.k) : old.k[i] = x
      keys == SortedStrings({old.k[i] : i \in 1..Len(old.k)} \cup {key})
  IN [t |-> "object",
      k |-> keys,
      v |-> [i \in 1..Len(keys) |-> IF keys[i] = key THEN member ELSE old.v[at(keys[i])]]]

\* value.append(element), on a null value or an array
JsonAppend(value, element) ==
  IF value.t = "array"
    THEN [t |-> "array", a |-> Append(value.a, element)]
    ELSE [t |-> "array", a |-> <<element>>]

\* value.size(): 0 for anything but an array or an object
JsonSize(value) ==
  CASE value.t = "array" -> Len(value.a)
    [] value.t = "object" -> Len(value.k)
    [] OTHER -> 0

\* value[key]: null when value is no object or has no such member
JsonMember(value, key) ==
  IF value.t = "object" /\ \E i \in 1..Len(value.k) : value.k[i] = key
    THEN value.v[CHOOSE i \in 1..Len(value.k) : value.k[i] = key]
    ELSE JNull

\* value[index] (from 0): null when value is no array or index is past its end
JsonAt(value, index) ==
  IF value.t = "array" /\ index < Len(value.a) THEN value.a[index + 1] ELSE JNull

RECURSIVE Digits(_)
Digits(n) == IF n < 10 THEN <<48 + n>> ELSE Digits(n \div 10) \o <<48 + (n % 10)>>

IntText(n) == IF n < 0 THEN <<45>> \o Digits(-n) ELSE Digits(n)

\* value.asString()
asString(value) ==
  CASE value.t = "string" -> value.s
    [] value.t = "int" -> IntText(value.n)
    [] OTHER -> <<>>

\* value.asInt64()
asInt64(value) == IF value.t = "int" THEN value.n ELSE 0

\* A string as a JSON string: quotes around it, a backslash before each
\* quote and backslash.  (The strings of the model hold no control bytes.)
Quoted(str) ==
  <<34>> \o Flatten([i \in 1..Len(str) |->
                       IF str[i] \in {34, 92} THEN <<92, str[i]>> ELSE <<str[i]>>])
         \o <<34>>

\* The byte sequences joined by commas.
RECURSIVE Joined(_)
Joined(ss) ==
  IF ss = <<>> THEN <<>>
  ELSE IF Len(ss) = 1 THEN ss[1]
  ELSE ss[1] \o <<44>> \o Joined(Tail(ss))

\* Json::writeString(wbuilder, value), without the writer's white space.
RECURSIVE writeString(_)
writeString(value) ==
  CASE value.t = "null" -> <<110, 117, 108, 108>>
    [] value.t = "int" -> IntText(value.n)
    [] value.t = "string" -> Quoted(value.s)
    [] value.t = "array" ->
         <<91>> \o Joined([i \in 1..Len(value.a) |-> writeString(value.a[i])]) \o <<93>>
    [] value.t = "object" ->
         <<123>> \o Joined([i \in 1..Len(value.k) |->
                              Quoted(value.k[i]) \o <<58>> \o writeString(value.v[i])])
                 \o <<125>>

ParseFailed == [ok |-> FALSE, val |-> JNull, pos |-> 0]

\* The byte at offset p of the document, -1 past its end.
CharAt(f, p) == IF p < Len(f) THEN f[p + 1] ELSE -1

\* The characters of a JSON string up to its closing quote, from offset p.
RECURSIVE ParseChars(_, _, _)
ParseChars(f, p, acc) ==
  LET c == CharAt(f, p) IN
    IF c = -1 THEN ParseFailed
    ELSE IF c = 34 THEN [ok |-> TRUE, val |-> acc, pos |-> p + 1]
    ELSE IF c = 92
      THEN (IF CharAt(f, p + 1) = -1 THEN ParseFailed
            ELSE ParseChars(f, p + 2, Append(acc, CharAt(f, p + 1))))
    ELSE ParseChars(f, p + 1, Append(acc, c))

\* The decimal digits from offset p.
RECURSIVE ParseDigits(_, _, _)
ParseDigits(f, p, acc) ==
  LET c == CharAt(f, p) IN
    IF c >= 48 /\ c <= 57 THEN ParseDigits(f, p + 1, 10 * acc + (c - 48))
    ELSE [ok |-> TRUE, val |-> acc, pos |-> p]

\* Json::Reader: the value that starts at offset p of the document.
RECURSIVE ParseValue(_, _)
RECURSIVE ParseElements(_, _, _)
RECURSIVE ParseMembers(_, _, _)
ParseValue(f, p) ==
  LET c == CharAt(f, p) IN
    CASE c = 110 ->
           IF /\ CharAt(f, p + 1) = 117 /\ CharAt(f, p + 2) = 108 /\ CharAt(f, p + 3) = 108
             THEN [ok |-> TRUE, val |-> JNull, pos |-> p + 4]
             ELSE ParseFailed
      [] c = 34 ->
           LET str == ParseChars(f, p + 1, <<>>) IN
             IF str.ok THEN [ok |-> TRUE, val |-> JString(str.val), pos |-> str.pos]
             ELSE ParseFailed
      [] c = 45 ->
           LET n == ParseDigits(f, p + 1, 0) IN
             IF n.pos > p + 1 THEN [ok |-> TRUE, val |-> JInt(-n.val), pos |-> n.pos]
             ELSE ParseFailed
      [] c >= 48 /\ c <= 57 ->
           LET n == ParseDigits(f, p, 0) IN [ok |-> TRUE, val |-> JInt(n.val), pos |-> n.pos]
      [] c = 91 ->
           IF CharAt(f, p + 1) = 93
             THEN [ok |-> TRUE, val |-> [t |-> "array", a |-> <<>>], pos |-> p + 2]
             ELSE ParseElements(f, p + 1, <<>>)
      [] c = 123 ->
           IF CharAt(f, p + 1) = 125
             THEN [ok |-> TRUE, val |-> [t |-> "object", k |-> <<>>, v |-> <<>>], pos |-> p + 2]
             ELSE ParseMembers(f, p + 1, JNull)
      [] OTHER -> ParseFailed

ParseElements(f, p, acc) ==
  LET element == ParseValue(f, p) IN
    IF ~element.ok THEN ParseFailed
    ELSE IF CharAt(f, element.pos) = 44
      THEN ParseElements(f, element.pos + 1, Append(acc, element.val))
    ELSE IF CharAt(f, element.pos) = 93
      THEN [ok |-> TRUE, val |-> [t |-> "array", a |-> Append(acc, element.val)],
            pos |-> element.pos + 1]
    ELSE ParseFailed

ParseMembers(f, p, acc) ==
  LET key == IF CharAt(f, p) = 34 THEN ParseChars(f, p + 1, <<>>) ELSE ParseFailed
      member == IF key.ok /\ CharAt(f, key.pos) = 58
                  THEN ParseValue(f, key.pos + 1) ELSE ParseFailed
  IN IF ~member.ok THEN ParseFailed
     ELSE IF CharAt(f, member.pos) = 44
       THEN ParseMembers(f, member.pos + 1, JsonSet(acc, key.val, member.val))
     ELSE IF CharAt(f, member.pos) = 125
       THEN [ok |-> TRUE, val |-> JsonSet(acc, key.val, member.val), pos |-> member.pos + 1]
     ELSE ParseFailed

\* std::vector<u8> read_entire_file(RandomReadFile*, uint64_t& pos)
read_entire_file(f, p) == [i \in 1..(IF p < Len(f) THEN Len(f) - p ELSE 0) |-> f[p + i]]

-----------------------------------------------------------------------------
(* JobDescriptor.                                                          *)

\* "dataset_name"
key_dataset_name == <<100, 97, 116, 97, 115, 101, 116, 95, 110, 97, 109, 101>>

\* "videos"
key_videos == <<118, 105, 100, 101, 111, 115>>

\* "path"
key_path == <<112, 97, 116, 104>>

\* "intervals"
key_intervals == <<105, 110, 116, 101, 114, 118, 97, 108, 115>>

\* for (interval : intervals) { json_interval.append(get<0>); json_interval.append(get<1>);
\*                              json_intervals.append(json_interval); }
RECURSIVE intervals_value(_, _)
intervals_value(intervals, json_intervals) ==
  IF intervals = <<>> THEN json_intervals
  ELSE LET interval == Head(intervals)
           json_interval == JsonAppend(JsonAppend(JNull, JInt(interval[1])), JInt(interval[2]))
       IN intervals_value(Tail(intervals), JsonAppend(json_intervals, json_interval))

\* for (it : descriptor.intervals) { video["path"] = ...; video["intervals"] = ...;
\*                                   videos.append(video); }
RECURSIVE videos_value(_, _, _)
videos_value(descriptor, paths, videos) ==
  IF paths = <<>> THEN videos
  ELSE LET video_path == Head(paths)
           json_intervals == intervals_value(descriptor.intervals[video_path], JNull)
           video == JsonSet(JsonSet(JNull, key_path, JString(video_path)),
                            key_intervals, json_intervals)
       IN videos_value(descriptor, Tail(paths), JsonAppend(videos, video))

serialize_job_descriptor_swapped(descriptor) ==
  LET videos == videos_value(descriptor, SortedStrings(DOMAIN descriptor.intervals), JNull)
      root == JsonSet(JsonSet(JNull, key_videos, JString(descriptor.dataset_name)),
                      key_dataset_name, videos)
  IN writeString(root)

\* void serialize_job_descriptor(WriteFile*, const JobDescriptor&): the
\* document it appends.
serialize_job_descriptor(descriptor) ==
  LET videos == videos_value(descriptor, SortedStrings(DOMAIN descriptor.intervals), JNull)
      root == JsonSet(JsonSet(JNull, key_dataset_name, JString(descriptor.dataset_name)),
                      key_videos, videos)
  IN writeString(root)

\* for (j < json_intervals.size()) intervals.emplace_back(json_intervals[j][0].asInt64(),
\*                                                        json_intervals[j][1].asInt64());
read_intervals(json_intervals) ==
  [j \in 1..JsonSize(json_intervals) |->
     <<asInt64(JsonAt(JsonAt(json_intervals, j - 1), 0)),
       asInt64(JsonAt(JsonAt(json_intervals, j - 1), 1))>>]

\* for (i < videos.size()) { ...; descriptor.intervals[path] = intervals; }
RECURSIVE read_videos(_, _, _)
read_videos(videos, i, intervals) ==
  IF i >= JsonSize(videos) THEN intervals
  ELSE LET path == asString(JsonMember(JsonAt(videos, i), key_path))
           json_intervals == JsonMember(JsonAt(videos, i), key_intervals)
       IN read_videos(videos, i + 1, MapPut(intervals, path, read_intervals(json_intervals)))

\* JobDescriptor deserialize_job_descriptor(RandomReadFile*, uint64_t& file_pos)
\* ss >> root throws when the bytes are no JSON document.
deserialize_job_descriptor(f, file_pos) ==
  LET bytes == read_entire_file(f, file_pos)
      root == ParseValue(bytes, 0)
  IN IF root.ok /\ root.pos = Len(bytes)
       THEN [status |-> "ok", pos |-> file_pos + Len(bytes),
             val |-> [kind |-> "job",
                      dataset_name |-> asString(JsonMember(root.val, key_dataset_name)),
                      intervals |-> read_videos(JsonMember(root.val, key_videos), 0, EmptyMap)]]
       ELSE Aborted

\* "b"
b_path == <<98>>

\* a"\  (a quote and a backslash in a name)
quoted_name == <<97, 34, 92>>

JobDescriptorInputs ==
  {[kind |-> "job", dataset_name |-> name, intervals |-> intervals] :
     name \in {videos_2016, <<>>, quoted_name},
     intervals \in UNION {[paths -> SeqsUpTo({<<0, 10>>, <<-5, 300>>}, MaxIntervals)] :
                            paths \in SUBSET {a_mp4, b_path}}}

SerializeJobDescriptor ==
  /\ pc = "init"
  /\ rec.kind = "job"
  /\ file' = serialize_job_descriptor(rec)
  /\ pc' = "written"
  /\ last' = Call("serialize_job_descriptor", -1, <<>>, FALSE)
  /\ UNCHANGED <<catalog_vars, dataset_log, job_log, frame, ndebug, pos, rec, out>>

DeserializeJobDescriptor ==
  /\ pc = "written"
  /\ rec.kind = "job"
  /\ LET r == deserialize_job_descriptor(file, pos) IN
       /\ out' = r.val
       /\ pos' = r.pos
       /\ pc' = IF r.status = "ok" THEN "done" ELSE "aborted"
  /\ last' = Call("deserialize_job_descriptor", -1, <<>>, FALSE)
  /\ UNCHANGED <<catalog_vars, dataset_log, job_log, frame, ndebug, file, rec>>

-----------------------------------------------------------------------------
(* One record's life: it is written to a fresh stream and read back from   *)
(* position 0.                                                             *)

InitRecords ==
  /\ next_dataset_id = 0
  /\ next_job_id = 0
  /\ dataset_names = EmptyMap
  /\ dataset_job_ids = EmptyMap
  /\ job_names = EmptyMap
  /\ dataset_log = <<>>
  /\ job_log = <<>>
  /\ last = [op |-> "none", id |-> -1, name |-> <<>>, threw |-> FALSE, pre |-> EmptyCatalog]
  /\ pc = "init"
  /\ ndebug \in BOOLEAN
  /\ file = <<>>
  /\ pos = 0
  /\ \/ rec \in ItemMetadataInputs
     \/ rec \in WebTimestampsInputs
     \/ rec \in DatasetDescriptorInputs
     \/ rec \in JobDescriptorInputs
  /\ out = NoRecord
  /\ frame = NoFrame

NextRecords ==
  \/ SerializeItemMetadata
  \/ DeserializeItemMetadata
  \/ SerializeWebTimestamps
  \/ DeserializeWebTimestamps
  \/ SerializeDatasetDescriptor
  \/ DeserializeDatasetDescriptor
  \/ SerializeJobDescriptor
  \/ DeserializeJobDescriptor

SpecRecords == InitRecords /\ [][NextRecords]_vars

-----------------------------------------------------------------------------
(* One stream that holds one record or two records back to back.  The      *)
(* caller appends them in order, a stream of one record may lose its tail, *)
(* and the caller reads the records back in order with one shared          *)
(* position.  frame holds the caller's locals: the records, how many were  *)
(* appended and returned, the stream's length after each append, whether   *)
(* the stream was cut, and the results of the last call's explicit reads.  *)

\* A record without keyframes and without packets, and one with MaxRun keyframes.
StreamItemMetadata ==
  {[kind |-> "item", frames |-> 300, width |-> 640, height |-> 480,
    codec_type |-> 1, chroma_format |-> 2,
    metadata_packets |-> b,
    keyframe_positions |-> [i \in 1..n |-> 70000],
    keyframe_timestamps |-> [i \in 1..n |-> -1],
    keyframe_byte_offsets |-> [i \in 1..n |-> 1000000]] :
     b \in {<<>>, <<0, 255>>}, n \in {0, MaxRun}}

StreamWebTimestamps ==
  {[kind |-> "web", time_base_numerator |-> 1001, time_base_denominator |-> 30000,
    pts_timestamps |-> [i \in 1..n |-> 3003],
    dts_timestamps |-> [i \in 1..n |-> -1]] : n \in {0, MaxRun}}

StreamDatasetDescriptors ==
  {[kind |-> "descriptor", total_frames |-> 100000,
    min_frames |-> 10, average_frames |-> 500, max_frames |-> 1000,
    min_width |-> 320, average_width |-> 640, max_width |-> 1920,
    min_height |-> 240, average_height |-> 480, max_height |-> 1080,
    original_video_paths |-> [i \in 1..n |-> a_mp4],
    item_names |-> [i \in 1..n |-> <<48>>]] : n \in {0, MaxVideos}}

\* The empty catalog, and one with a dataset that has a job.
StreamCatalogs ==
  {[kind |-> "catalog", next_dataset_id |-> 0, next_job_id |-> 0,
    dataset_names |-> EmptyMap, dataset_job_ids |-> EmptyMap, job_names |-> EmptyMap],
   [kind |-> "catalog", next_dataset_id |-> 1, next_job_id |-> 1,
    dataset_names |-> MapPut(EmptyMap, 0, videos_2016),
    dataset_job_ids |-> MapPut(EmptyMap, 0, {0}),
    job_names |-> MapPut(EmptyMap, 0, detect_faces)]}

StreamJobDescriptors ==
  {[kind |-> "job", dataset_name |-> videos_2016,
    intervals |-> MapPut(EmptyMap, a_mp4, <<<<0, 10>>>>)]}

BinaryKinds == {"item", "web", "descriptor", "catalog"}

StreamRecords ==
  StreamItemMetadata \cup StreamWebTimestamps \cup StreamDatasetDescriptors
    \cup StreamCatalogs \cup StreamJobDescriptors

\* The serializer the caller calls for a record of this kind.
serialize_record(r, ub) ==
  CASE r.kind = "item" -> serialize_dataset_item_metadata(r, ub)
    [] r.kind = "web" -> serialize_dataset_item_web_timestamps(r, ub)
    [] r.kind = "descriptor" -> serialize_dataset_descriptor(r, ub)
    [] r.kind = "catalog" ->
         IF assert(Cardinality(DOMAIN r.dataset_names) = Cardinality(DOMAIN r.dataset_job_ids))
           THEN [status |-> "ok", bytes |-> serialize_database_metadata(r)]
           ELSE [status |-> "abort", bytes |-> <<>>]
    [] r.kind = "job" -> [status |-> "ok", bytes |-> serialize_job_descriptor(r)]

\* The catalog a caller of deserialize_database_metadata holds afterwards, as
\* a record of the stream.
catalog_record(r) ==
  IF r.ok
    THEN [status |-> "ok", pos |-> r.pos,
          val |-> [kind |-> "catalog",
                   next_dataset_id |-> r.val.next_dataset_id,
                   next_job_id |-> r.val.next_job_id,
                   dataset_names |-> r.val.dataset_names,
                   dataset_job_ids |-> r.val.dataset_job_ids,
                   job_names |-> r.val.job_names]]
    ELSE Aborted

\* The deserializer the caller calls for a record of this kind.
deserialize_record(kind, f, p, eofs) ==
  CASE kind = "item" -> deserialize_dataset_item_metadata(f, p, eofs)
    [] kind = "web" -> deserialize_dataset_item_web_timestamps(f, p, eofs)
    [] kind = "descriptor" -> deserialize_dataset_descriptor(f, p)
    [] kind = "catalog" -> catalog_record(deserialize_database_metadata(f, p))
    [] kind = "job" -> deserialize_job_descriptor(f, p)

\* What one explicit read of a deserializer asked for and got.
ReadOutcome(r, size) == [result |-> r.result, size_read |-> r.size_read, size |-> size]

\* The six file->read calls of deserialize_dataset_item_metadata, as far as
\* the call gets: their results in order.
item_metadata_reads(f, p, eofs) ==
  LET p0 == p + 5 * SizeofI32
      r1 == file_read(f, p0, SizeofSizeT, 1 \in eofs)
      metadata_size == FromBytes(Filled(r1.data, SizeofSizeT))
      p1 == p0 + r1.size_read
      r2 == file_read(f, p1, metadata_size, 2 \in eofs)
      p2 == p1 + r2.size_read
      r3 == file_read(f, p2, SizeofSizeT, 3 \in eofs)
      num_keyframes == FromBytes(Filled(r3.data, SizeofSizeT))
      run == SizeofI64 * num_keyframes
      p3 == p2 + r3.size_read
      r4 == file_read(f, p3, run, 4 \in eofs)
      p4 == p3 + r4.size_read
      r5 == file_read(f, p4, run, 5 \in eofs)
      p5 == p4 + r5.size_read
      r6 == file_read(f, p5, run, 6 \in eofs)
  IN <<ReadOutcome(r1, SizeofSizeT), ReadOutcome(r2, metadata_size),
       ReadOutcome(r3, SizeofSizeT), ReadOutcome(r4, run),
       ReadOutcome(r5, run), ReadOutcome(r6, run)>>

\* The five file->read calls of deserialize_dataset_item_web_timestamps.
web_timestamps_reads(f, p, eofs) ==
  LET r1 == file_read(f, p, SizeofI32, 1 \in eofs)
      p1 == p + r1.size_read
      r2 == file_read(f, p1, SizeofI32, 2 \in eofs)
      p2 == p1 + r2.size_read
      r3 == file_read(f, p2, SizeofSizeT, 3 \in eofs)
      num_frames == FromBytes(Filled(r3.data, SizeofSizeT))
      run == SizeofI64 * num_frames
      p3 == p2 + r3.size_read
      r4 == file_read(f, p3, run, 4 \in eofs)
      p4 == p3 + r4.size_read
      r5 == file_read(f, p4, run, 5 \in eofs)
  IN <<ReadOutcome(r1, SizeofI32), ReadOutcome(r2, SizeofI32),
       ReadOutcome(r3, SizeofSizeT), ReadOutcome(r4, run), ReadOutcome(r5, run)>>

explicit_reads(kind, f, p, eofs) ==
  CASE kind = "item" -> item_metadata_reads(f, p, eofs)
    [] kind = "web" -> web_timestamps_reads(f, p, eofs)
    [] OTHER -> <<>>

InitStream ==
  /\ next_dataset_id = 0
  /\ next_job_id = 0
  /\ dataset_names = EmptyMap
  /\ dataset_job_ids = EmptyMap
  /\ job_names = EmptyMap
  /\ dataset_log = <<>>
  /\ job_log = <<>>
  /\ last = [op |-> "none", id |-> -1, name |-> <<>>, threw |-> FALSE, pre |-> EmptyCatalog]
  /\ pc = "init"
  /\ ndebug \in BOOLEAN
  /\ file = <<>>
  /\ pos = 0
  /\ rec = NoRecord
  /\ out = NoRecord
  /\ \E records \in {<<r>> : r \in StreamRecords}
                    \cup {<<r1, r2>> : r1 \in StreamRecords, r2 \in StreamRecords} :
       frame = [kind |-> "stream", records |-> records, written |-> 0, returned |-> 0,
                ends |-> <<>>, cut |-> FALSE, reads |-> <<>>]

\* The caller appends its next record to the stream.
AppendRecord ==
  /\ pc = "init"
  /\ frame.kind = "stream"
  /\ frame.written < Len(frame.records)
  /\ LET r == frame.records[frame.written + 1] IN
       /\ rec' = r
       /\ last' = Call("serialize", frame.written + 1, <<>>, FALSE)
       /\ \E ub \in UBOutcomes :
            LET w == serialize_record(r, ub) IN
              /\ file' = file \o w.bytes
              /\ frame' = [frame EXCEPT !.written = @ + 1,
                                        !.ends = Append(@, Len(file) + Len(w.bytes))]
              /\ pc' = IF w.status # "ok" THEN "aborted"
                       ELSE IF frame.written + 1 = Len(frame.records) THEN "written"
                       ELSE "init"
  /\ UNCHANGED <<catalog_vars, dataset_log, job_log, ndebug, pos, out>>

\* A stream of one record loses its tail: n bytes of it are left.
Truncate ==
  /\ pc = "written"
  /\ frame.kind = "stream"
  /\ Len(frame.records) = 1
  /\ ~frame.cut
  /\ frame.returned = 0
  /\ \E n \in 0..(Len(file) - 1) : file' = [k \in 1..n |-> file[k]]
  /\ frame' = [frame EXCEPT !.cut = TRUE]
  /\ last' = Call("truncate", -1, <<>>, FALSE)
  /\ UNCHANGED <<catalog_vars, dataset_log, job_log, pc, ndebug, pos, rec, out>>

\* The caller reads its next record back, from the position the call before
\* left.
ReadRecord ==
  /\ pc = "written"
  /\ frame.kind = "stream"
  /\ frame.returned < Len(frame.records)
  /\ LET kind == frame.records[frame.returned + 1].kind IN
       \E eofs \in SUBSET ReadIndices :
         \E r \in {deserialize_record(kind, file, pos, eofs)} :
           /\ out' = r.val
           /\ pos' = r.pos
           /\ frame' = [frame EXCEPT !.returned = IF r.status = "ok" THEN @ + 1 ELSE @,
                                     !.reads = explicit_reads(kind, file, pos, eofs)]
           /\ pc' = IF r.status # "ok" THEN "aborted"
                    ELSE IF frame.returned + 1 = Len(frame.records) THEN "done"
                    ELSE "written"
  /\ last' = Call("deserialize", frame.returned + 1, <<>>, FALSE)
  /\ UNCHANGED <<catalog_vars, dataset_log, job_log, ndebug, file, rec>>

NextStream ==
  \/ AppendRecord
  \/ Truncate
  \/ ReadRecord

SpecStream == InitStream /\ [][NextStream]_vars

-----------------------------------------------------------------------------
(* One storage operation of the item metadata codec, from its first        *)
(* attempt to the caller's check of the result.  frame holds the call      *)
(* site, the attempts made and the result the backend gave last.           *)

\* EXP_BACKOFF gives up after this many attempts.
MaxAttempts == 3

\* The EXP_BACKOFF call sites of serialize_dataset_item_metadata and
\* deserialize_dataset_item_metadata: the line of the check that follows the
\* macro, the operation, and the check.
StorageSites ==
  {[line |-> 258, op |-> "append", check |-> "exit_on_error"],
   [line |-> 265, op |-> "append", check |-> "exit_on_error"],
   [line |-> 278, op |-> "append", check |-> "exit_on_error"],
   [line |-> 284, op |-> "append", check |-> "exit_on_error"],
   [line |-> 290, op |-> "append", check |-> "exit_on_error"],
   [line |-> 296, op |-> "append", check |-> "exit_on_error"],
   [line |-> 317, op |-> "read", check |-> "exit_on_error"],
   [line |-> 327, op |-> "read", check |-> "exit_on_error"],
   [line |-> 340, op |-> "read", check |-> "exit_on_error"],
   [line |-> 352, op |-> "read", check |-> "exit_on_error"],
   [line |-> 360, op |-> "read", check |-> "assert"],
   [line |-> 369, op |-> "read", check |-> "assert"]}

\* StoreResult: what the backend can answer to an operation.
StoreResults(op) ==
  IF op = "read"
    THEN {"Success", "EndOfFile", "TransientFailure", "ReadFailure"}
    ELSE {"Success", "TransientFailure", "WriteFailure"}

InitBackoff ==
  /\ next_dataset_id = 0
  /\ next_job_id = 0
  /\ dataset_names = EmptyMap
  /\ dataset_job_ids = EmptyMap
  /\ job_names = EmptyMap
  /\ dataset_log = <<>>
  /\ job_log = <<>>
  /\ last = [op |-> "none", id |-> -1, name |-> <<>>, threw |-> FALSE, pre |-> EmptyCatalog]
  /\ pc = "attempt"
  /\ ndebug \in BOOLEAN
  /\ file = <<>>
  /\ pos = 0
  /\ rec = NoRecord
  /\ out = NoRecord
  /\ \E site \in StorageSites :
       frame = [kind |-> "operation", site |-> site, attempts |-> 0, result |-> "none"]

\* EXP_BACKOFF: the expression is evaluated.  Any result but
\* TransientFailure leaves the macro; TransientFailure leads to a sleep and
\* another attempt, or to the end of the process when the attempts are used up.
backoff_attempt ==
  /\ pc = "attempt"
  /\ frame.kind = "operation"
  /\ \E result \in StoreResults(frame.site.op) :
       /\ frame' = [frame EXCEPT !.attempts = @ + 1, !.result = result]
       /\ pc' = IF result # "TransientFailure" THEN "check"
                ELSE IF frame.attempts + 1 < MaxAttempts THEN "backoff"
                ELSE "aborted"
  /\ last' = Call(frame.site.op, frame.site.line, <<>>, FALSE)
  /\ UNCHANGED <<catalog_vars, dataset_log, job_log, ndebug, file, pos, rec, out>>

\* EXP_BACKOFF: the sleep is over, the same expression is evaluated again.
backoff_retry ==
  /\ pc = "backoff"
  /\ frame.kind = "operation"
  /\ pc' = "attempt"
  /\ UNCHANGED <<catalog_vars, dataset_log, job_log, last, ndebug, file, pos, rec, out, frame>>

\* The statement after the macro: exit_on_error(result), or
\* assert(result == Success || result == EndOfFile).
check_result ==
  /\ pc = "check"
  /\ frame.kind = "operation"
  /\ pc' = IF frame.site.check = "exit_on_error"
             THEN (IF exit_on_error(frame.result) THEN "continue" ELSE "aborted")
             ELSE (IF assert(frame.result \in {"Success", "EndOfFile"})
                     THEN "continue" ELSE "aborted")
  /\ UNCHANGED <<catalog_vars, dataset_log, job_log, last, ndebug, file, pos, rec, out, frame>>

NextBackoff ==
  \/ backoff_attempt
  \/ backoff_retry
  \/ check_result

SpecBackoff == InitBackoff /\ [][NextBackoff]_vars

\* The scheduler lets the thread of the operation run.
FairSpecBackoff == SpecBackoff /\ WF_vars(NextBackoff)

-----------------------------------------------------------------------------
(* Lookups by name on the catalog.                                         *)

\* for (kv : names) if (kv.second == name) { id = kv.first; break; }
\* The first key, in key order, whose name matches; -1 when none does.
first_id_named(names, name) ==
  LET matches == {k \in DOMAIN names : names[k] = name}
  IN IF matches = {} THEN -1 ELSE Min(matches)

\* i32 DatabaseMetadata::get_dataset_id(const std::string&)
\* last.id is the value returned; last.threw says that assert(id != -1)
\* ended the process.
get_dataset_id(dataset) ==
  /\ pc = "run"
  /\ LET id == first_id_named(dataset_names, dataset) IN
       /\ last' = Call("get_dataset_id", id, dataset, ~assert(id # -1))
       /\ pc' = IF assert(id # -1) THEN "run" ELSE "aborted"
  /\ UNCHANGED <<catalog_vars, dataset_log, job_log>>
  /\ codec_unchanged

\* i32 DatabaseMetadata::get_job_id(const std::string&)
get_job_id(job) ==
  /\ pc = "run"
  /\ LET job_id == first_id_named(job_names, job) IN
       /\ last' = Call("get_job_id", job_id, job, ~assert(job_id # -1))
       /\ pc' = IF assert(job_id # -1) THEN "run" ELSE "aborted"
  /\ UNCHANGED <<catalog_vars, dataset_log, job_log>>
  /\ codec_unchanged

\* The catalog's calls with the lookups by name among them.
NextLookup ==
  \/ \E dataset \in DatasetNameInputs : add_dataset(dataset)
  \/ \E dataset_id \in 0..MaxDatasets : remove_dataset(dataset_id)
  \/ \E dataset_id \in 0..MaxDatasets, job_name \in JobNameInputs :
       add_job(dataset_id, job_name)
  \/ \E job_id \in 0..MaxJobs : remove_job(job_id)
  \/ \E dataset \in DatasetNameInputs : get_dataset_id(dataset)
  \/ \E job \in JobNameInputs : get_job_id(job)

SpecLookup == Init /\ [][NextLookup]_vars

-----------------------------------------------------------------------------
(* Properties of the catalog, checked under Spec.                          *)

\* const std::string& DatabaseMetadata::get_job_name(i32)
get_job_name(job_id) == job_names[job_id]

StrictlyIncreasing(s) == \A i, j \in 1..Len(s) : i < j => s[i] < s[j]

AllDatasetJobs(sets) == UNION {sets[d] : d \in DOMAIN sets}

\* C1: the dataset ids add_dataset allocates are pairwise distinct and
\* strictly increasing in call order, and so are the job ids add_job
\* allocates; every allocated id lies below its allocator, and neither
\* allocator ever decreases, so no id is allocated twice, removed or not.
C1_IdsStrictlyIncreasing ==
  /\ [](/\ StrictlyIncreasing(dataset_log)
        /\ StrictlyIncreasing(job_log)
        /\ \A i \in 1..Len(dataset_log) : dataset_log[i] < next_dataset_id
        /\ \A i \in 1..Len(job_log) : job_log[i] < next_job_id)
  /\ [][/\ next_dataset_id' >= next_dataset_id
        /\ next_job_id' >= next_job_id]_vars

\* A dataset and a job were removed, and a later add_dataset and add_job
\* allocated fresh ids.
C1_Witness ==
  /\ Len(dataset_log) = 2
  /\ dataset_log[1] \notin DOMAIN dataset_names
  /\ dataset_log[2] \in DOMAIN dataset_names
  /\ Len(job_log) = 2
  /\ job_log[1] \notin DOMAIN job_names
  /\ job_log[2] \in DOMAIN job_names

\* C2: dataset_names and dataset_job_ids have the same keys in every state,
\* and the assertion at the top of serialize_database_metadata never aborts.
C2_SameDatasetKeys ==
  /\ DOMAIN dataset_names = DOMAIN dataset_job_ids
  /\ last.op = "serialize_database_metadata" => pc = "saved"

\* A catalog that lost a dataset and still holds one was serialized.
C2_Witness ==
  /\ last.op = "serialize_database_metadata"
  /\ pc = "saved"
  /\ DOMAIN dataset_names # {}
  /\ Len(dataset_log) > Cardinality(DOMAIN dataset_names)

\* C3: every job id in some dataset's job set is a key of job_names.
C3_JobIdsAreNamed ==
  \A d \in DOMAIN dataset_job_ids : \A j \in dataset_job_ids[d] : j \in DOMAIN job_names

\* One dataset owns a job while another job's name outlived remove_job.
C3_Witness ==
  /\ AllDatasetJobs(dataset_job_ids) # {}
  /\ \E j \in DOMAIN job_names : j \notin AllDatasetJobs(dataset_job_ids)

\* C4: after remove_dataset(D) of a dataset D of the catalog, has_dataset(D)
\* is false, D has no entry in dataset_job_ids, and has_job(J) is false for
\* every job J that was in D's job set.
C4_RemoveDatasetCascades ==
  (last.op = "remove_dataset" /\ ~last.threw) =>
    /\ ~has_dataset(last.id)
    /\ last.id \notin DOMAIN dataset_job_ids
    /\ \A j \in last.pre.dataset_job_ids[last.id] : ~has_job(j)

\* remove_dataset ran on a dataset that owned two jobs.
C4_Witness ==
  /\ last.op = "remove_dataset"
  /\ ~last.threw
  /\ Cardinality(last.pre.dataset_job_ids[last.id]) = 2

\* C5: remove_job(J) takes J out of every dataset's job set and changes
\* nothing else: job_names (J's own entry included, so get_job_name(J) still
\* resolves), dataset_names, the keys of dataset_job_ids and both allocators.
C5_RemoveJobFrame ==
  last.op = "remove_job" =>
    /\ job_names = last.pre.job_names
    /\ last.id \in DOMAIN last.pre.job_names =>
         get_job_name(last.id) = last.pre.job_names[last.id]
    /\ dataset_names = last.pre.dataset_names
    /\ DOMAIN dataset_job_ids = DOMAIN last.pre.dataset_job_ids
    /\ \A d \in DOMAIN dataset_job_ids :
         dataset_job_ids[d] = last.pre.dataset_job_ids[d] \ {last.id}
    /\ next_dataset_id = last.pre.next_dataset_id
    /\ next_job_id = last.pre.next_job_id

\* remove_job ran on a job that a dataset owned, and its name is still there.
C5_Witness ==
  /\ last.op = "remove_job"
  /\ last.id \in AllDatasetJobs(last.pre.dataset_job_ids)
  /\ last.id \in DOMAIN job_names

\* C6 as claimed: after remove_job(J) of a job J that add_job created,
\* has_job(J) is false.  The code leaves J's entry in job_names, which is
\* what has_job(i32) tests.
C6_RemovedJobNotFound ==
  (last.op = "remove_job" /\ last.id \in DOMAIN last.pre.job_names) => ~has_job(last.id)

\* C7: the catalog read back from the stream that serialize_database_metadata
\* wrote equals the catalog written in all five fields, and the read never
\* aborts; the dataset "videos-2016" with the job "detect-faces" comes back
\* as dataset name 0, job name 0 and dataset_job_ids[0] = {0}.
C7_CatalogRoundTrip ==
  /\ last.op = "deserialize_database_metadata" => pc = "loaded"
  /\ pc = "loaded" =>
       /\ out.next_dataset_id = next_dataset_id
       /\ out.next_job_id = next_job_id
       /\ out.dataset_names = dataset_names
       /\ out.dataset_job_ids = dataset_job_ids
       /\ out.job_names = job_names
  /\ (pc = "loaded" /\ last.pre = [next_dataset_id |-> 1, next_job_id |-> 1,
                                  dataset_names |-> (0 :> videos_2016),
                                  dataset_job_ids |-> (0 :> {0}),
                                  job_names |-> (0 :> detect_faces)]) =>
       /\ out.dataset_names[0] = videos_2016
       /\ out.job_names[0] = detect_faces
       /\ out.dataset_job_ids[0] = {0}

\* The catalog of the scenario was written and read back.
C7_Witness ==
  /\ pc = "loaded"
  /\ dataset_names = (0 :> videos_2016)
  /\ job_names = (0 :> detect_faces)
  /\ dataset_job_ids = (0 :> {0})
  /\ out.dataset_job_ids = (0 :> {0})

\* A catalog with a dataset that has no job, and the empty catalog, were
\* written and read back.
C7_WitnessEmpty ==
  pc = "loaded" /\ (dataset_names = EmptyMap \/ \E d \in DOMAIN dataset_job_ids : dataset_job_ids[d] = {})

-----------------------------------------------------------------------------
(* More properties of the catalog, checked under Spec.                     *)

\* C16: the job sets of distinct datasets are pairwise disjoint: a job id is
\* in at most one dataset's job set.
C16_JobSetsDisjoint ==
  \A d \in DOMAIN dataset_job_ids, e \in DOMAIN dataset_job_ids :
    d # e => dataset_job_ids[d] \cap dataset_job_ids[e] = {}

\* Two datasets, each with a job.
C16_Witness ==
  \E d \in DOMAIN dataset_job_ids, e \in DOMAIN dataset_job_ids :
    d # e /\ dataset_job_ids[d] # {} /\ dataset_job_ids[e] # {}

\* C17: remove_dataset(D) leaves every other dataset E as it was: E's name,
\* E's job set, the job_names entry of every job of E; and both allocators.
C17_RemoveDatasetFrame ==
  (last.op = "remove_dataset") =>
    /\ next_dataset_id = last.pre.next_dataset_id
    /\ next_job_id = last.pre.next_job_id
    /\ \A E \in ((DOMAIN last.pre.dataset_names) \cup (DOMAIN last.pre.dataset_job_ids)) \ {last.id} :
         /\ E \in DOMAIN last.pre.dataset_names =>
              (E \in DOMAIN dataset_names /\ dataset_names[E] = last.pre.dataset_names[E])
         /\ E \in DOMAIN last.pre.dataset_job_ids =>
              /\ E \in DOMAIN dataset_job_ids
              /\ dataset_job_ids[E] = last.pre.dataset_job_ids[E]
              /\ \A j \in last.pre.dataset_job_ids[E] :
                   j \in DOMAIN last.pre.job_names =>
                     (j \in DOMAIN job_names /\ job_names[j] = last.pre.job_names[j])

\* A dataset with a job was removed while another dataset with a job stayed.
C17_Witness ==
  /\ last.op = "remove_dataset"
  /\ ~last.threw
  /\ last.pre.dataset_job_ids[last.id] # {}
  /\ \E E \in DOMAIN dataset_job_ids : dataset_job_ids[E] # {}

\* C18 as claimed: add_job for a dataset without a job set fails and leaves
\* the catalog as it was, next_job_id included.  The code increments
\* next_job_id before dataset_job_ids.at(dataset_id) throws.
C18_FailedAddJobFrame ==
  (last.op = "add_job" /\ last.threw) => Catalog = last.pre

\* The part of C18 the code keeps: the failed call changes neither map nor
\* next_dataset_id.
FailedAddJobKeepsMaps ==
  (last.op = "add_job" /\ last.threw) =>
    /\ dataset_names = last.pre.dataset_names
    /\ dataset_job_ids = last.pre.dataset_job_ids
    /\ job_names = last.pre.job_names
    /\ next_dataset_id = last.pre.next_dataset_id

\* The named jobs that are in no dataset's job set.
Orphans == (DOMAIN job_names) \ AllDatasetJobs(dataset_job_ids)

\* C19: a job_names entry whose id is in no dataset's job set comes into
\* being only by remove_job of that id (so without remove_job the keys of
\* job_names are exactly the union of the job sets), and no later operation
\* deletes it.
C19_OrphansOnlyByRemoveJob ==
  /\ [](AllDatasetJobs(dataset_job_ids) \subseteq DOMAIN job_names)
  /\ [][\A j \in Orphans' : j \in Orphans \/ (last'.op = "remove_job" /\ last'.id = j)]_vars
  /\ [][Orphans \subseteq Orphans']_vars

\* remove_job left a named job in no set, and a later remove_dataset of a
\* dataset with a job left that name in place.
C19_Witness ==
  /\ Orphans # {}
  /\ last.op = "remove_dataset"
  /\ ~last.threw
  /\ last.pre.dataset_job_ids[last.id] # {}

-----------------------------------------------------------------------------
(* Properties of the lookups by name, checked under SpecLookup.            *)

\* C14 as claimed: get_dataset_id(name) returns an id whose name is name when
\* has_dataset(name), and ends the process when no dataset has that name;
\* get_job_id likewise over job_names; neither changes the catalog.  The
\* failure is an assert, which a build with NDEBUG compiles out: the call
\* then returns -1.
C14_LookupFindsOrFails ==
  /\ last.op = "get_dataset_id" =>
       /\ Catalog = last.pre
       /\ IF has_dataset_name(last.name)
            THEN /\ ~last.threw
                 /\ last.id \in DOMAIN dataset_names
                 /\ dataset_names[last.id] = last.name
            ELSE last.threw /\ pc = "aborted"
  /\ last.op = "get_job_id" =>
       /\ Catalog = last.pre
       /\ IF has_job_name(last.name)
            THEN /\ ~last.threw
                 /\ last.id \in DOMAIN job_names
                 /\ job_names[last.id] = last.name
            ELSE last.threw /\ pc = "aborted"

\* The part of C14 every build keeps: a present name is found, its lowest id
\* is returned, and the catalog is unchanged.
LookupFindsPresentName ==
  /\ last.op \in {"get_dataset_id", "get_job_id"} => Catalog = last.pre
  /\ (last.op = "get_dataset_id" /\ has_dataset_name(last.name)) =>
       /\ ~last.threw
       /\ last.id \in DOMAIN dataset_names
       /\ dataset_names[last.id] = last.name
       /\ \A k \in DOMAIN dataset_names : dataset_names[k] = last.name => last.id <= k
  /\ (last.op = "get_job_id" /\ has_job_name(last.name)) =>
       /\ ~last.threw
       /\ last.id \in DOMAIN job_names
       /\ job_names[last.id] = last.name

\* With assertions compiled in, a lookup of an absent name ends the process.
LookupOfAbsentNameAbortsUnlessNdebug ==
  (/\ last.op \in {"get_dataset_id", "get_job_id"}
   /\ ~ndebug
   /\ IF last.op = "get_dataset_id" THEN ~has_dataset_name(last.name)
                                    ELSE ~has_job_name(last.name)) =>
    (last.threw /\ pc = "aborted")

\* With NDEBUG, a lookup of an absent name returned -1 and the process runs on.
LookupReturnedMinusOne ==
  /\ last.op \in {"get_dataset_id", "get_job_id"}
  /\ last.id = -1
  /\ pc = "run"

-----------------------------------------------------------------------------
(* Properties of remove_dataset's steps, checked under SpecSteps.          *)

\* What the reader saw does not fit together: the dataset is there without a
\* job set, or a job of its set has no name.
TornObservation ==
  /\ out.kind = "observation"
  /\ \/ out.has_dataset /\ ~out.has_job_set
     \/ out.unnamed_jobs # {}

\* C15: a reader sees a dataset without a job set, or a job of a dataset's
\* set without a name, only while a remove_dataset is between its map
\* updates; a reader that looks when no call is in progress never does.
\* (That a reader in between does see both is C15_Witness and
\* C15_WitnessUnnamedJob.)
C15_TornOnlyInsideRemoveDataset ==
  TornObservation => out.during \in {"erase_job_names", "erase_name"}

\* The reader saw has_dataset(D) true while D had no job set.
C15_Witness ==
  /\ out.kind = "observation"
  /\ out.has_dataset
  /\ ~out.has_job_set
  /\ out.during = "erase_name"

\* The reader saw a job in D's set that has_job() does not know.
C15_WitnessUnnamedJob ==
  /\ out.kind = "observation"
  /\ out.unnamed_jobs # {}
  /\ out.has_dataset
  /\ out.has_job_set
  /\ out.during = "erase_job_names"

\* A reader looked between two whole calls and saw a dataset with a job.
C15_WitnessWholeCalls ==
  /\ out.kind = "observation"
  /\ out.during = "run"
  /\ out.has_dataset
  /\ out.has_job_set
  /\ last.op = "remove_dataset"
  /\ ~last.threw

-----------------------------------------------------------------------------
(* Properties of streams of records, checked under SpecStream.             *)

\* A read of a cut stream of one record of this kind was attempted.
CutStreamRead(kind) ==
  /\ frame.kind = "stream"
  /\ frame.cut
  /\ frame.records[1].kind = kind
  /\ last.op = "deserialize"

\* The offset at which the keyframe_positions run of an encoded item
\* metadata record ends.
PositionsEnd(r) ==
  5 * SizeofI32 + SizeofSizeT + Len(r.metadata_packets) + SizeofSizeT
    + SizeofI64 * Len(r.keyframe_positions)

\* C11 as claimed: when the stream of an encoded item metadata record is cut
\* at any point, deserialize_dataset_item_metadata ends the process and
\* returns no record.  A cut inside the timestamps or byte offsets run is
\* caught by assert() alone.
C11_TruncatedItemMetadataAborts ==
  CutStreamRead("item") => (pc = "aborted" /\ out = NoRecord)

\* The part of C11 every build keeps: a cut before the end of the
\* keyframe_positions run, inside the metadata_packets blob in particular,
\* ends the process.
TruncatedBeforeTimestampsAborts ==
  (CutStreamRead("item") /\ Len(file) < PositionsEnd(frame.records[1])) =>
    (pc = "aborted" /\ out = NoRecord)

\* With assertions compiled in, every cut ends the process.
TruncatedItemMetadataAbortsUnlessNdebug ==
  (CutStreamRead("item") /\ ~ndebug) => (pc = "aborted" /\ out = NoRecord)

\* With NDEBUG, a record cut inside its last two runs was returned, with
\* zeros where the stream ended.
PartialItemMetadataReturned ==
  /\ CutStreamRead("item")
  /\ pc = "done"
  /\ out # frame.records[1]
  /\ out.keyframe_positions = frame.records[1].keyframe_positions
  /\ out.keyframe_byte_offsets # frame.records[1].keyframe_byte_offsets

\* A deserializer with explicit reads returned a record.
ExplicitReadsReturned ==
  /\ frame.kind = "stream"
  /\ last.op = "deserialize"
  /\ pc # "aborted"
  /\ frame.reads # <<>>

\* C13 as claimed: when deserialize_dataset_item_metadata or
\* deserialize_dataset_item_web_timestamps returns a record, every read but
\* the last returned Success, the last returned Success or EndOfFile, and
\* every read returned as many bytes as it asked for.  The item metadata
\* deserializer accepts EndOfFile on its last two reads, and every size
\* check is an assert().
C13_EndOfFileOnlyOnLastRead ==
  ExplicitReadsReturned =>
    \A i \in 1..Len(frame.reads) :
      /\ frame.reads[i].size_read = frame.reads[i].size
      /\ i < Len(frame.reads) => frame.reads[i].result = "Success"

\* The part of C13 every build keeps: the reads that go through
\* exit_on_error (all but the last two of item metadata, all but the last of
\* web timestamps) returned Success and all their bytes.
CheckedReadsSucceeded ==
  ExplicitReadsReturned =>
    \A i \in 1..4 : /\ frame.reads[i].result = "Success"
                    /\ frame.reads[i].size_read = frame.reads[i].size

\* With assertions compiled in, every read of a returned record got all its
\* bytes, and C13 holds of the web timestamps deserializer.
SizesCheckedUnlessNdebug ==
  (ExplicitReadsReturned /\ ~ndebug) =>
    /\ \A i \in 1..Len(frame.reads) : frame.reads[i].size_read = frame.reads[i].size
    /\ Len(frame.reads) = 5 =>
         \A i \in 1..4 : frame.reads[i].result = "Success"

\* With assertions compiled in, item metadata was returned although its
\* fifth read, not the last one, ended with EndOfFile.
EndOfFileAcceptedBeforeLastRead ==
  /\ ExplicitReadsReturned
  /\ ~ndebug
  /\ Len(frame.reads) = 6
  /\ frame.reads[5].result = "EndOfFile"
  /\ frame.reads[6].result = "Success"

\* C20 as claimed: on a stream of two records, each binary deserializer
\* called after binary records only returns the record that was appended and
\* leaves the position at the end of that record's bytes, so a second record
\* is recovered by the next call; deserialize_job_descriptor leaves the
\* position at the end of the stream.  A last record without keyframes (or
\* frames) is not recovered when the backend reports EndOfFile at the end of
\* the stream (C8).
C20_BackToBackRecordsRecovered ==
  (/\ frame.kind = "stream"
   /\ Len(frame.records) = 2
   /\ ~frame.cut
   /\ last.op = "deserialize") =>
    LET k == last.id
        r == frame.records[k]
    IN /\ (\A i \in 1..k : frame.records[i].kind \in BinaryKinds) =>
            /\ pc # "aborted"
            /\ out = r
            /\ pos = frame.ends[k]
       /\ (r.kind = "job" /\ pc # "aborted") => pos = Len(file)

\* The part of C20 the code keeps: a binary deserializer that returns has
\* returned the appended record and advanced the position by exactly that
\* record's bytes; the first of two binary records is always returned; and
\* deserialize_job_descriptor leaves the position at the end of the stream.
ReturnedRecordsAdvanceExactly ==
  (frame.kind = "stream" /\ ~frame.cut /\ last.op = "deserialize") =>
    LET k == last.id
        r == frame.records[k]
    IN /\ (pc # "aborted" /\ \A i \in 1..k : frame.records[i].kind \in BinaryKinds) =>
            (out = r /\ pos = frame.ends[k])
       /\ (k < Len(frame.records) /\ \A i \in 1..k : frame.records[i].kind \in BinaryKinds) =>
            pc # "aborted"
       /\ (r.kind = "job" /\ pc # "aborted") => (out = r /\ pos = Len(file))

\* Two different binary records were both read back.
TwoRecordsRecovered ==
  /\ frame.kind = "stream"
  /\ pc = "done"
  /\ Len(frame.records) = 2
  /\ frame.records[1].kind = "item"
  /\ frame.records[2].kind = "catalog"
  /\ out = frame.records[2]
  /\ pos = Len(file)

\* A job descriptor after a binary record was read back.
JobDescriptorAfterBinaryRecovered ==
  /\ frame.kind = "stream"
  /\ pc = "done"
  /\ Len(frame.records) = 2
  /\ frame.records[1].kind = "web"
  /\ frame.records[2].kind = "job"
  /\ out = frame.records[2]

-----------------------------------------------------------------------------
(* Properties of one storage operation, checked under SpecBackoff.         *)

\* C12 as claimed: a storage operation of the codec makes at most
\* MaxAttempts attempts, is tried again only after TransientFailure, and
\* ends in the caller going on after a success or in the end of the
\* process: the caller never goes on with a failure in its hands.  (A read
\* that the caller lets end with EndOfFile counts as a success here.)  The
\* reads at lines 356-371 are checked by assert() alone.
C12_SucceedsOrAborts ==
  frame.kind = "operation" =>
    /\ frame.attempts <= MaxAttempts
    /\ pc = "backoff" => (frame.result = "TransientFailure" /\ frame.attempts < MaxAttempts)
    /\ pc = "check" => frame.result # "TransientFailure"
    /\ pc = "continue" => frame.result \in {"Success", "EndOfFile"}

\* The part of C12 the code keeps: the bound, the retry after
\* TransientFailure only, and success-or-abort at every site that calls
\* exit_on_error, and at every site in a build with assertions.
CheckedSitesSucceedOrAbort ==
  frame.kind = "operation" =>
    /\ frame.attempts <= MaxAttempts
    /\ pc = "backoff" => (frame.result = "TransientFailure" /\ frame.attempts < MaxAttempts)
    /\ pc = "check" => frame.result # "TransientFailure"
    /\ (pc = "continue" /\ frame.site.check = "exit_on_error") => frame.result = "Success"
    /\ (pc = "continue" /\ ~ndebug) => frame.result \in {"Success", "EndOfFile"}
    /\ pc = "continue" => frame.result # "TransientFailure"

\* A retry is a retry of the same operation, and an operation that has ended
\* stays ended.
RetriesSameOperation ==
  [][/\ frame'.site = frame.site
     /\ pc = "backoff" => pc' = "attempt"
     /\ pc \in {"continue", "aborted"} => pc' = pc]_vars

\* Every operation ends: the caller goes on, or the process ends.
StorageOperationEnds == <>(pc \in {"continue", "aborted"})

\* With NDEBUG the caller went on after a read that failed for good.
ContinuedAfterReadFailure ==
  /\ frame.kind = "operation"
  /\ pc = "continue"
  /\ frame.result = "ReadFailure"
  /\ frame.site.check = "assert"

\* An append succeeded on its last permitted attempt.
SucceededOnLastAttempt ==
  /\ frame.kind = "operation"
  /\ pc = "continue"
  /\ frame.site.op = "append"
  /\ frame.attempts = MaxAttempts

-----------------------------------------------------------------------------
(* Properties of the record codecs, checked under SpecRecords.             *)

\* Whether the record's parallel sequences have one length.
ParallelLengthsEqual(r) ==
  CASE r.kind = "item" ->
         /\ Len(r.keyframe_positions) = Len(r.keyframe_timestamps)
         /\ Len(r.keyframe_positions) = Len(r.keyframe_byte_offsets)
    [] r.kind = "web" -> Len(r.pts_timestamps) = Len(r.dts_timestamps)
    [] r.kind = "descriptor" -> Len(r.original_video_paths) = Len(r.item_names)
    [] OTHER -> TRUE

\* C8 as claimed: for every DatasetItemMetadata whose keyframe sequences have
\* one length, zero included, reading back the stream the serializer wrote
\* completes and returns an equal record, whichever reads that end at the
\* end of the stream the backend reports as EndOfFile.  With zero keyframes
\* the reads of the keyframe count and of the positions end at the end of
\* the stream and go through exit_on_error, which aborts on EndOfFile.
C8_ItemMetadataRoundTrip ==
  (/\ rec.kind = "item"
   /\ ParallelLengthsEqual(rec)
   /\ last.op = "deserialize_dataset_item_metadata") =>
    (pc = "done" /\ out = rec)

\* The part of C8 the code keeps: a record with at least one keyframe (and
\* any blob, the empty one included) is written without aborting and read
\* back equal.
ItemMetadataRoundTripWithKeyframes ==
  (/\ rec.kind = "item"
   /\ ParallelLengthsEqual(rec)
   /\ Len(rec.keyframe_positions) > 0) =>
    /\ last.op = "serialize_dataset_item_metadata" => pc = "written"
    /\ last.op = "deserialize_dataset_item_metadata" => (pc = "done" /\ out = rec /\ pos = Len(file))

\* Dataset descriptors with paired sequences are read back equal.
DatasetDescriptorRoundTrip ==
  (/\ rec.kind = "descriptor"
   /\ ParallelLengthsEqual(rec)) =>
    /\ last.op = "serialize_dataset_descriptor" => pc = "written"
    /\ last.op = "deserialize_dataset_descriptor" => (pc = "done" /\ out = rec /\ pos = Len(file))

\* Web timestamps with at least one frame are read back equal.
WebTimestampsRoundTripWithFrames ==
  (/\ rec.kind = "web"
   /\ ParallelLengthsEqual(rec)
   /\ Len(rec.pts_timestamps) > 0) =>
    /\ last.op = "serialize_dataset_item_web_timestamps" => pc = "written"
    /\ last.op = "deserialize_dataset_item_web_timestamps" => (pc = "done" /\ out = rec /\ pos = Len(file))

\* C9: the job descriptor read back from the document serialize_job_descriptor
\* wrote has the same dataset_name and the same mapping from path to
\* intervals, each list in its order; an empty mapping and a video without
\* intervals included.  The read never aborts.
C9_JobDescriptorRoundTrip ==
  (rec.kind = "job" /\ last.op = "deserialize_job_descriptor") =>
    /\ pc = "done"
    /\ out.dataset_name = rec.dataset_name
    /\ DOMAIN out.intervals = DOMAIN rec.intervals
    /\ \A path \in DOMAIN rec.intervals : out.intervals[path] = rec.intervals[path]

\* A descriptor with two videos, one without intervals and one with two
\* different intervals, was written and read back.
C9_Witness ==
  /\ rec.kind = "job"
  /\ pc = "done"
  /\ DOMAIN rec.intervals = {a_mp4, b_path}
  /\ rec.intervals[a_mp4] = <<>>
  /\ rec.intervals[b_path] = <<<<-5, 300>>, <<0, 10>>>>
  /\ rec.dataset_name = quoted_name
  /\ out.intervals[b_path] = <<<<-5, 300>>, <<0, 10>>>>

\* A descriptor with no video was written and read back.
C9_WitnessEmpty ==
  rec.kind = "job" /\ pc = "done" /\ DOMAIN rec.intervals = {} /\ DOMAIN out.intervals = {}

\* C10 as claimed: a serializer handed a record whose parallel sequences
\* differ in length never returns as if it had written the record: the call
\* is rejected or aborts.  serialize_dataset_descriptor and
\* serialize_dataset_item_web_timestamps compare no lengths and write the
\* count of the first sequence; serialize_dataset_item_metadata only asserts.
C10_MismatchedLengthsRejected ==
  (/\ last.op \in {"serialize_dataset_descriptor",
                   "serialize_dataset_item_metadata",
                   "serialize_dataset_item_web_timestamps"}
   /\ ~ParallelLengthsEqual(rec)) =>
    pc = "aborted"

\* The silent truncation itself: web timestamps with more dts than pts
\* entries were written and read back, without any abort, as a record that
\* lost the extra dts entries.
C10_SilentTruncationReached ==
  /\ rec.kind = "web"
  /\ pc = "done"
  /\ ~ndebug
  /\ Len(rec.dts_timestamps) > Len(rec.pts_timestamps)
  /\ Len(out.dts_timestamps) = Len(rec.pts_timestamps)

====
